---- MODULE Spec2Model ----
(***************************************************************************)
(* Everstake wallet SDK: the Ethereum, Polygon and Berrachain adapters as  *)
(* state machines (specifications Spec, SpecPolygon, SpecBerrachain).      *)
(*                                                                         *)
(* One adapter instance is modelled.  Its state is the network binding     *)
(* (client, contractAccounting, contractPool,                              *)
(* addressContractWithdrawTreasury).  An asynchronous method is a call     *)
(* frame that advances from one await to the next: the action named after  *)
(* the method runs its synchronous prefix and issues the first RPC         *)
(* request, and one action per awaited request delivers the response and   *)
(* runs the continuation up to the next await or to the end of the method. *)
(* selectNetwork is synchronous and may run while a call is suspended.     *)
(*                                                                         *)
(* Amounts are arbitrary-precision decimals c * 10^e, as in bignumber.js   *)
(* (coefficient and exponent); wei quantities returned by the chain are    *)
(* integers written the same way with e >= 0.                              *)
(***************************************************************************)
EXTENDS Integers, Sequences, FiniteSets, TLC

VARIABLES
    client,                          \* this.client: the bound RPC client
    contractAccounting,              \* this.contractAccounting
    contractPool,                    \* this.contractPool
    addressContractWithdrawTreasury, \* this.addressContractWithdrawTreasury
    selected,                        \* the last selectNetwork call and its outcome
    pc,                              \* where the in-flight call is suspended
    frame,                           \* arguments and locals of the in-flight call
    rpcLog,                          \* requests issued by the in-flight call
    result,                          \* outcome of the last finished call
    this_network,                    \* Berrachain: this.network
    validator,                       \* Berrachain: this.validator
    btg,                             \* Berrachain: this.btg
    apiUrl                           \* the off-chain client's module-level apiUrl

berrachain == <<this_network, validator, btg>>
binding == <<client, contractAccounting, contractPool, addressContractWithdrawTreasury>>
vars == <<client, contractAccounting, contractPool, addressContractWithdrawTreasury,
          selected, pc, frame, rpcLog, result, this_network, validator, btg,
          apiUrl>>

----------------------------------------------------------------------------
(* Bounds of the model *)

\* on-chain balances and requested amounts range over 0, 0.5, ... MaxHalfEth/2 ether
MaxHalfEth == 2
\* gas estimates returned by the node range over 1 .. MaxGas
MaxGas == 2
\* allowedInterchangeNum ranges up to UINT16_MAX + MaxOver
MaxOver == 1

----------------------------------------------------------------------------
(* Decimal arithmetic (bignumber.js) *)

RECURSIVE Pow10(_)
Pow10(n) == IF n <= 0 THEN 1 ELSE 10 * Pow10(n - 1)

Min(a, b) == IF a <= b THEN a ELSE b

BN(c, e) == [nan |-> FALSE, c |-> c, e |-> e]
NaN == [nan |-> TRUE, c |-> 0, e |-> 0]

\* the coefficient of x written with exponent m (m <= x.e)
Scaled(x, m) == x.c * Pow10(x.e - m)

\* comparisons with NaN are false, as in bignumber.js
BNlt(a, b) == /\ ~a.nan /\ ~b.nan
              /\ Scaled(a, Min(a.e, b.e)) < Scaled(b, Min(a.e, b.e))
BNgt(a, b) == BNlt(b, a)
BNeq(a, b) == /\ ~a.nan /\ ~b.nan
              /\ Scaled(a, Min(a.e, b.e)) = Scaled(b, Min(a.e, b.e))
BNisZero(a) == ~a.nan /\ a.c = 0
BNminus(a, b) ==
    IF a.nan \/ b.nan THEN NaN
    ELSE BN(Scaled(a, Min(a.e, b.e)) - Scaled(b, Min(a.e, b.e)), Min(a.e, b.e))

----------------------------------------------------------------------------
(* Constants of the adapter *)

UINT16_MAX == 65535
ETH_GAS_RESERVE == 220000
\* 0.1 ether in wei
ETH_MIN_AMOUNT == BN(1, 17)
ETHER_DECIMALS == 18

EthNetworkType == {"mainnet", "holesky"}

ETH_NETWORK_ADDRESSES ==
    [n \in EthNetworkType |->
        [addressContractAccounting |-> <<n, "accounting">>,
         addressContractPool |-> <<n, "pool">>,
         addressContractWithdrawTreasury |-> <<n, "treasury">>,
         rpcUrl |-> <<n, "rpc">>]]

\* the codes of the Ethereum adapter's error table
ERROR_MESSAGES ==
    {"ACTIVATE_STAKE_ERROR", "ADDRESS_FORMAT_ERROR", "AUTOCOMPOUND_BALANCE_OF_ERROR",
     "AUTOCOMPOUND_ERROR", "CLAIM_WITHDRAW_REQUEST_ERROR", "MAX_AMOUNT_FOR_UNSTAKE_ERROR",
     "MIN_AMOUNT_ERROR", "MIN_STAKE_AMOUNT_ERROR", "NETWORK_NOT_SUPPORTED",
     "NOT_FILLED_UNSTAKE_MESSAGE", "NO_REWARDS_MESSAGE", "PENDING_BALANCE_OF_ERROR",
     "READY_FOR_AUTOCOMPOUND_REWARDS_AMOUNT_ERROR", "SIMULATE_UNSTAKE_ERROR",
     "STAKE_ERROR", "UNSTAKE_ERROR", "UNSTAKE_PENDING_ERROR", "WITHDRAW_REQUEST_ERROR",
     "WRONG_TYPE_MESSAGE", "ZERO_UNSTAKE_ERROR", "ZERO_UNSTAKE_MESSAGE",
     "AMOUNT_GREATER_THAN_PENDING_BALANCE_ERROR", "INSUFFICIENT_PENDING_BALANCE_ERROR",
     "DEPOSITED_BALANCE_OF_ERROR", "PENDING_DEPOSITED_BALANCE_OF_ERROR",
     "PENDING_RESTAKED_REWARD_OF_ERROR", "RESTAKED_REWARD_OF_ERROR",
     "POOL_BALANCES_ERROR", "USER_BALANCES_ERROR"}

----------------------------------------------------------------------------
(* Inputs *)

\* network identifiers a caller may pass; "goerli" is not a key of the table
NetworkIds == EthNetworkType \cup {"goerli"}
NoUrl == "undefined"
Urls == {NoUrl, "https://rpc.example"}

Addresses == {"0xUser", "not-an-address"}
isAddress(a) == a = "0xUser"

\* an amount argument: a plain decimal string c * 10^e ("dec"), a string that
\* is no number ("nan"), or a value that is not a string at all ("number")
Dec(c, e) == [kind |-> "dec", c |-> c, e |-> e]
DecimalAmounts ==
    {Dec(5 * k, -1) : k \in 0..MaxHalfEth} \cup {Dec(5, -2), Dec(10, -2)}
StringAmounts == DecimalAmounts \cup {[kind |-> "nan", c |-> 0, e |-> 0]}
Amounts == StringAmounts \cup {[kind |-> "number", c |-> 1, e |-> 0]}

InterchangeNums == {0} \cup {UINT16_MAX + d : d \in 0..MaxOver}

\* wei quantities the chain may return: multiples of half an ether
WeiValues == {BN(5 * k, 17) : k \in 0..MaxHalfEth}
GasValues == 1..MaxGas

\* a response of the node: a value, or a transport failure
RpcFailure == [ok |-> FALSE, v |-> NaN, w |-> NaN, gas |-> 0]
RpcValue(v) == [ok |-> TRUE, v |-> v, w |-> NaN, gas |-> 0]
RpcPair(v, w) == [ok |-> TRUE, v |-> v, w |-> w, gas |-> 0]
RpcGas(g) == [ok |-> TRUE, v |-> NaN, w |-> NaN, gas |-> g]

----------------------------------------------------------------------------
(* Unit conversion *)

\* new BigNumber(amount)
BigNumberOf(amount) == IF amount.kind = "nan" THEN NaN ELSE BN(amount.c, amount.e)

\* parseUnits accepts plain decimal strings only
parseUnitsThrows(amount) == amount.kind # "dec"

\* parseUnits(amount, decimals): the integer amount * 10^decimals; digits
\* beyond the last decimal are rounded half up
parseUnits(amount, decimals) ==
    IF amount.e + decimals >= 0
    THEN BN(amount.c, amount.e + decimals)
    ELSE BN((amount.c + 5 * Pow10(-(amount.e + decimals) - 1))
               \div Pow10(-(amount.e + decimals)), 0)

\* new BigNumber(amount.toString()).shiftedBy(-18)
fromWeiToEther(amount) == BN(amount.c, amount.e - ETHER_DECIMALS)

\* the number of decimal digits of a coefficient
RECURSIVE Digits(_)
Digits(c) == IF c < 10 THEN 1 ELSE 1 + Digits(c \div 10)

\* the exponents at which BigNumber.toString() turns to exponential notation
TO_EXP_NEG == -7
TO_EXP_POS == 21

\* b.toString(): plain notation, or exponential notation when the exponent of
\* the leading digit is at most TO_EXP_NEG or at least TO_EXP_POS
toString(b) ==
    IF b.nan THEN [kind |-> "nan", c |-> 0, e |-> 0]
    ELSE IF b.c # 0 /\ (\/ Digits(b.c) - 1 + b.e <= TO_EXP_NEG
                        \/ Digits(b.c) - 1 + b.e >= TO_EXP_POS)
    THEN [kind |-> "exp", c |-> b.c, e |-> b.e]
    ELSE Dec(b.c, b.e)

\* b.toFixed(): plain notation always
toFixed(b) ==
    IF b.nan THEN [kind |-> "nan", c |-> 0, e |-> 0] ELSE Dec(b.c, b.e)

\* enum ValidatorStatus and its reverse mapping ValidatorStatus[code]
ValidatorStatus == [Unknown |-> 0, Pending |-> 1, Deposited |-> 2]
ValidatorStatusName(code) ==
    IF \E name \in DOMAIN ValidatorStatus : ValidatorStatus[name] = code
    THEN CHOOSE name \in DOMAIN ValidatorStatus : ValidatorStatus[name] = code
    ELSE ""

toLowerCase(name) ==
    CASE name = "Unknown" -> "unknown"
      [] name = "Pending" -> "pending"
      [] name = "Deposited" -> "deposited"
      [] OTHER -> name

\* getStatusFromCode(code)
getStatusFromCode(code) ==
    IF ValidatorStatusName(code) # ""
    THEN toLowerCase(ValidatorStatusName(code))
    ELSE "invalid status"

\* mutant: the raw estimate is returned
calculateGasLimit_NoReserve(gasConsumption) == gasConsumption

\* new BigNumber(gasConsumption.toString()).plus(ETH_GAS_RESERVE).toNumber()
calculateGasLimit(gasConsumption) == gasConsumption + ETH_GAS_RESERVE

----------------------------------------------------------------------------
(* Error mapping (Blockchain base class) *)

NoError == [code |-> "", detail |-> NaN]
\* a failure that carries no code of the table
RawError(name) == [code |-> name, detail |-> NaN]

throwError(code, detail) ==
    IF code \in ERROR_MESSAGES THEN [code |-> code, detail |-> detail]
    ELSE RawError("UnknownErrorCode")

handleError(code, error) ==
    IF error.code \in ERROR_MESSAGES THEN error
    ELSE throwError(code, NaN)

----------------------------------------------------------------------------
(* Call frames *)

NoData == [fn |-> "", amount |-> NaN, num |-> 0, source |-> 0]
encodeFunctionData(fn, amount, num, source) ==
    [fn |-> fn, amount |-> amount, num |-> num, source |-> source]

NoTx == [from |-> "", to |-> <<"", "">>, value |-> NaN, gasLimit |-> 0, data |-> NoData]

NoFrame ==
    [op |-> "", address |-> "", amount |-> Dec(0, 0), numArg |-> 0,
     allowedInterchangeNum |-> 0, wrap |-> "", gasConsumption |-> 0,
     balance |-> NaN, pendingBalance |-> NaN, remainder |-> NaN, minStake |-> NaN,
     requested |-> NaN, readyForClaim |-> NaN, rewards |-> NaN, results |-> <<>>,
     tx |-> NoTx]

NewFrame(op, address, amount, num) ==
    [NoFrame EXCEPT !.op = op, !.address = address, !.amount = amount,
                    !.numArg = num, !.allowedInterchangeNum = num]

NoResult == [status |-> "none", error |-> NoError, tx |-> NoTx, value |-> NaN]

Failed(error) == [status |-> "error", error |-> error, tx |-> NoTx, value |-> NaN]
Returned(tx) == [status |-> "tx", error |-> NoError, tx |-> tx, value |-> NaN]
ReturnedValue(v) == [status |-> "value", error |-> NoError, tx |-> NoTx, value |-> v]

\* mutant: a call keeps the client it started with
Request_ClientOfCall(method, to, fn, data, account) ==
    [method |-> method,
     client |-> IF rpcLog = <<>> THEN client ELSE rpcLog[1].client,
     to |-> to, fn |-> fn, data |-> data, account |-> account]

\* a logged request: the client it was sent on, the contract, the function
Request(method, to, fn, data, account) ==
    [method |-> method, client |-> client, to |-> to, fn |-> fn,
     data |-> data, account |-> account]

\* the call ends: it throws error
Throw(f, log, error) ==
    /\ pc' = "done"
    /\ frame' = f
    /\ rpcLog' = log
    /\ result' = Failed(error)

\* await this.client.readContract({address: to, functionName: fn})
readContract(label, f, to, fn, log) ==
    /\ pc' = label
    /\ frame' = f
    /\ rpcLog' = Append(log, Request("readContract", to, fn, NoData, ""))
    /\ result' = NoResult

\* getTransaction(data, address, contractAddress, value): estimateGas is
\* issued on the bound client for to/data/account and awaited
getTransaction(f, data, contractAddress, value, log) ==
    /\ pc' = "estimateGas"
    /\ frame' = [f EXCEPT !.tx = [from |-> f.address, to |-> contractAddress,
                                  value |-> value, gasLimit |-> 0, data |-> data]]
    /\ rpcLog' = Append(log, Request("estimateGas", contractAddress, data.fn, data, f.address))
    /\ result' = NoResult

----------------------------------------------------------------------------
(* Network selection *)

\* mutant: the accounting contract is bound to the pool's address
Binding_WrongAccounting(network, url) ==
    [client |-> [network |-> network,
                 url |-> IF url = NoUrl THEN ETH_NETWORK_ADDRESSES[network].rpcUrl
                         ELSE <<network, url>>],
     contractAccounting |->
         [abi |-> "ABI_CONTRACT_ACCOUNTING",
          address |-> ETH_NETWORK_ADDRESSES[network].addressContractPool],
     contractPool |->
         [abi |-> "ABI_CONTRACT_POOL",
          address |-> ETH_NETWORK_ADDRESSES[network].addressContractPool],
     addressContractWithdrawTreasury |->
         ETH_NETWORK_ADDRESSES[network].addressContractWithdrawTreasury]

Binding(network, url) ==
    [client |-> [network |-> network,
                 url |-> IF url = NoUrl THEN ETH_NETWORK_ADDRESSES[network].rpcUrl
                         ELSE <<network, url>>],
     contractAccounting |->
         [abi |-> "ABI_CONTRACT_ACCOUNTING",
          address |-> ETH_NETWORK_ADDRESSES[network].addressContractAccounting],
     contractPool |->
         [abi |-> "ABI_CONTRACT_POOL",
          address |-> ETH_NETWORK_ADDRESSES[network].addressContractPool],
     addressContractWithdrawTreasury |->
         ETH_NETWORK_ADDRESSES[network].addressContractWithdrawTreasury]

\* mutant: the client is created before the network is looked up
initializeNetwork_ClientFirst(network, url) ==
    IF network \notin DOMAIN ETH_NETWORK_ADDRESSES
    THEN /\ selected' = [network |-> network, url |-> url,
                         error |-> throwError("NETWORK_NOT_SUPPORTED", NaN)]
         /\ client' = [network |-> network, url |-> <<network, url>>]
         /\ UNCHANGED <<contractAccounting, contractPool, addressContractWithdrawTreasury>>
    ELSE /\ selected' = [network |-> network, url |-> url, error |-> NoError]
         /\ client' = Binding(network, url).client
         /\ contractAccounting' = Binding(network, url).contractAccounting
         /\ contractPool' = Binding(network, url).contractPool
         /\ addressContractWithdrawTreasury' =
                Binding(network, url).addressContractWithdrawTreasury

\* initializeNetwork(network, urlOrTransport): throws before it assigns
\* anything when the network is no key of the table
initializeNetwork(network, url) ==
    IF network \notin DOMAIN ETH_NETWORK_ADDRESSES
    THEN /\ selected' = [network |-> network, url |-> url,
                         error |-> throwError("NETWORK_NOT_SUPPORTED", NaN)]
         /\ UNCHANGED binding
    ELSE /\ selected' = [network |-> network, url |-> url, error |-> NoError]
         /\ client' = Binding(network, url).client
         /\ contractAccounting' = Binding(network, url).contractAccounting
         /\ contractPool' = Binding(network, url).contractPool
         /\ addressContractWithdrawTreasury' =
                Binding(network, url).addressContractWithdrawTreasury

selectNetwork ==
    \E network \in NetworkIds, url \in Urls :
        /\ initializeNetwork(network, url)
        /\ UNCHANGED <<pc, frame, rpcLog, result, berrachain, apiUrl>>

----------------------------------------------------------------------------------------------------------------------------------------
(* stake *)

\* mutant: lte in place of lt
belowMinAmount_Lte(amountWei) == ~BNgt(amountWei, ETH_MIN_AMOUNT)

\* amountWei.lt(this.minAmount)
belowMinAmount(amountWei) == BNlt(amountWei, ETH_MIN_AMOUNT)

stake ==
    /\ pc = "idle"
    /\ UNCHANGED <<binding, selected, berrachain, apiUrl>>
    /\ \E address \in Addresses, amount \in Amounts :
        LET f == [NewFrame("stake", address, amount, 0) EXCEPT !.wrap = "STAKE_ERROR"]
            amountWei == parseUnits(amount, ETHER_DECIMALS)
        IN  IF ~isAddress(address)
            THEN Throw(f, <<>>, throwError("ADDRESS_FORMAT_ERROR", NaN))
            ELSE IF amount.kind = "number"
            THEN Throw(f, <<>>, throwError("WRONG_TYPE_MESSAGE", NaN))
            ELSE IF parseUnitsThrows(amount)
            THEN \* parseUnits is called outside the try block
                 Throw(f, <<>>, RawError("InvalidDecimalNumberError"))
            ELSE IF belowMinAmount(amountWei)
            THEN Throw(f, <<>>, throwError("MIN_AMOUNT_ERROR", ETH_MIN_AMOUNT))
            ELSE getTransaction(f, encodeFunctionData("stake", NaN, 0, 0),
                                contractPool.address, amountWei, <<>>)

----------------------------------------------------------------------------
(* unstake and simulateUnstake *)

\* mutant: the overflow check is missing
clampInterchangeNum_NoClamp(allowedInterchangeNum) == allowedInterchangeNum

\* if (allowedInterchangeNum > UINT16_MAX) allowedInterchangeNum = UINT16_MAX
clampInterchangeNum(allowedInterchangeNum) ==
    IF allowedInterchangeNum > UINT16_MAX THEN UINT16_MAX ELSE allowedInterchangeNum

\* mutant: lte in place of lt
exceedsBalance_Lte(balance, amount) == ~BNgt(balance, BigNumberOf(amount))

\* mutant: the balance is not compared
exceedsBalance_Never(balance, amount) == FALSE

\* balance.lt(new BigNumber(amount))
exceedsBalance(balance, amount) == BNlt(balance, BigNumberOf(amount))

unstake ==
    /\ pc = "idle"
    /\ UNCHANGED <<binding, selected, berrachain, apiUrl>>
    /\ \E address \in Addresses, amount \in Amounts, num \in InterchangeNums :
        LET f == [NewFrame("unstake", address, amount, num) EXCEPT !.wrap = "UNSTAKE_ERROR"]
        IN  IF ~isAddress(address)
            THEN Throw(f, <<>>, throwError("ADDRESS_FORMAT_ERROR", NaN))
            ELSE IF amount.kind = "number"
            THEN Throw(f, <<>>, throwError("WRONG_TYPE_MESSAGE", NaN))
            ELSE readContract("autocompoundBalanceOf", f, contractAccounting.address,
                              "autocompoundBalanceOf", <<>>)

simulateUnstake ==
    /\ pc = "idle"
    /\ UNCHANGED <<binding, selected, berrachain, apiUrl>>
    /\ \E address \in Addresses, amount \in Amounts, num \in InterchangeNums :
        LET f == [NewFrame("simulateUnstake", address, amount, num)
                     EXCEPT !.wrap = "SIMULATE_UNSTAKE_ERROR"]
        IN  IF ~isAddress(address)
            THEN Throw(f, <<>>, handleError(f.wrap, throwError("ADDRESS_FORMAT_ERROR", NaN)))
            ELSE readContract("autocompoundBalanceOf", f, contractAccounting.address,
                              "autocompoundBalanceOf", <<>>)

\* the continuation of unstake / simulateUnstake after autocompoundBalanceOf
autocompoundBalanceOf_Returns ==
    /\ pc = "autocompoundBalanceOf"
    /\ UNCHANGED <<binding, selected, berrachain, apiUrl>>
    /\ \E r \in {RpcFailure} \cup {RpcValue(v) : v \in WeiValues} :
        LET balance == fromWeiToEther(r.v)
            f == [frame EXCEPT !.balance = balance,
                               !.allowedInterchangeNum =
                                   clampInterchangeNum(frame.allowedInterchangeNum)]
            data == encodeFunctionData("unstake", parseUnits(f.amount, ETHER_DECIMALS),
                                       f.allowedInterchangeNum, 0)
        IN  IF ~r.ok
            THEN Throw(frame, rpcLog,
                       handleError(frame.wrap,
                           handleError("AUTOCOMPOUND_BALANCE_OF_ERROR",
                                       RawError("TransportError"))))
            ELSE IF exceedsBalance(balance, f.amount)
            THEN Throw(f, rpcLog,
                       handleError(f.wrap,
                           throwError("MAX_AMOUNT_FOR_UNSTAKE_ERROR", balance)))
            ELSE IF parseUnitsThrows(f.amount)
            THEN Throw(f, rpcLog,
                       handleError(f.wrap, RawError("InvalidDecimalNumberError")))
            ELSE IF f.op = "unstake"
            THEN getTransaction(f, data, contractPool.address, BN(0, 0), rpcLog)
            ELSE /\ pc' = "simulateContract"
                 /\ frame' = f
                 /\ rpcLog' = Append(rpcLog,
                        Request("simulateContract", contractPool.address, "unstake",
                                data, f.address))
                 /\ result' = NoResult

simulateContract_Returns ==
    /\ pc = "simulateContract"
    /\ UNCHANGED <<binding, selected, berrachain, apiUrl>>
    /\ \E r \in {RpcFailure} \cup {RpcValue(v) : v \in WeiValues} :
        IF r.ok
        THEN /\ pc' = "done"
             /\ result' = ReturnedValue(fromWeiToEther(r.v))
             /\ UNCHANGED <<frame, rpcLog>>
        ELSE Throw(frame, rpcLog, handleError(frame.wrap, RawError("TransportError")))

----------------------------------------------------------------------------
(* unstakePending *)

\* mutant: gte in place of gt
exceedsPending_Gte(bnAmount, pendingBalance) == ~BNlt(bnAmount, pendingBalance)

\* bnAmount.gt(pendingBalance)
exceedsPending(bnAmount, pendingBalance) == BNgt(bnAmount, pendingBalance)

\* mutant: lte in place of lt
belowMinStake_Lte(remainder, minStake) == ~BNgt(remainder, minStake)

\* pendingBalance.lt(minStake), on the balance left after the subtraction
belowMinStake(remainder, minStake) == BNlt(remainder, minStake)

unstakePending ==
    /\ pc = "idle"
    /\ UNCHANGED <<binding, selected, berrachain, apiUrl>>
    /\ \E address \in Addresses, amount \in Amounts :
        LET f == [NewFrame("unstakePending", address, amount, 0)
                     EXCEPT !.wrap = "UNSTAKE_PENDING_ERROR"]
        IN  IF ~isAddress(address)
            THEN Throw(f, <<>>, throwError("ADDRESS_FORMAT_ERROR", NaN))
            ELSE readContract("pendingBalanceOf", f, contractAccounting.address,
                              "pendingBalanceOf", <<>>)

pendingBalanceOf_Returns ==
    /\ pc = "pendingBalanceOf"
    /\ UNCHANGED <<binding, selected, berrachain, apiUrl>>
    /\ \E r \in {RpcFailure} \cup {RpcValue(v) : v \in WeiValues} :
        LET pendingBalance == fromWeiToEther(r.v)
            bnAmount == BigNumberOf(frame.amount)
            f == [frame EXCEPT !.pendingBalance = pendingBalance,
                               !.remainder = BNminus(pendingBalance, bnAmount)]
        IN  IF ~r.ok
            THEN \* pendingBalanceOf is awaited outside the try block
                 Throw(frame, rpcLog,
                       handleError("PENDING_BALANCE_OF_ERROR", RawError("TransportError")))
            ELSE IF BNisZero(pendingBalance)
            THEN Throw([frame EXCEPT !.pendingBalance = pendingBalance], rpcLog,
                       throwError("ZERO_UNSTAKE_MESSAGE", NaN))
            ELSE IF exceedsPending(bnAmount, pendingBalance)
            THEN Throw([frame EXCEPT !.pendingBalance = pendingBalance], rpcLog,
                       throwError("AMOUNT_GREATER_THAN_PENDING_BALANCE_ERROR",
                                  pendingBalance))
            ELSE IF ~BNisZero(f.remainder)
            THEN readContract("minStakeAmount", f, contractPool.address,
                              "minStakeAmount", rpcLog)
            ELSE IF parseUnitsThrows(f.amount)
            THEN Throw(f, rpcLog,
                       handleError(f.wrap, RawError("InvalidDecimalNumberError")))
            ELSE getTransaction(f,
                     encodeFunctionData("unstakePending",
                                        parseUnits(f.amount, ETHER_DECIMALS), 0, 0),
                     contractPool.address, BN(0, 0), rpcLog)

minStakeAmount_Returns ==
    /\ pc = "minStakeAmount"
    /\ UNCHANGED <<binding, selected, berrachain, apiUrl>>
    /\ \E r \in {RpcFailure} \cup {RpcValue(v) : v \in WeiValues} :
        LET minStake == fromWeiToEther(r.v)
            f == [frame EXCEPT !.minStake = minStake]
        IN  IF ~r.ok
            THEN Throw(frame, rpcLog,
                       handleError(frame.wrap,
                           handleError("MIN_STAKE_AMOUNT_ERROR",
                                       RawError("TransportError"))))
            ELSE IF belowMinStake(f.remainder, minStake)
            THEN Throw(f, rpcLog,
                       handleError(f.wrap,
                           throwError("INSUFFICIENT_PENDING_BALANCE_ERROR", minStake)))
            ELSE IF parseUnitsThrows(f.amount)
            THEN Throw(f, rpcLog,
                       handleError(f.wrap, RawError("InvalidDecimalNumberError")))
            ELSE getTransaction(f,
                     encodeFunctionData("unstakePending",
                                        parseUnits(f.amount, ETHER_DECIMALS), 0, 0),
                     contractPool.address, BN(0, 0), rpcLog)

----------------------------------------------------------------------------
(* claimWithdrawRequest *)

\* mutant: readyForClaim.lt(requested) in place of !readyForClaim.eq(requested)
claimCheck_Lt(requested, readyForClaim) ==
    IF BNisZero(requested) THEN "ZERO_UNSTAKE_ERROR"
    ELSE IF BNlt(readyForClaim, requested) THEN "NOT_FILLED_UNSTAKE_MESSAGE"
    ELSE ""

\* the two checks on the withdraw request, in the order of the code: the code
\* of the error thrown, or "" when the request may be claimed
claimCheck(requested, readyForClaim) ==
    IF BNisZero(requested) THEN "ZERO_UNSTAKE_ERROR"
    ELSE IF ~BNeq(readyForClaim, requested) THEN "NOT_FILLED_UNSTAKE_MESSAGE"
    ELSE ""

claimWithdrawRequest ==
    /\ pc = "idle"
    /\ UNCHANGED <<binding, selected, berrachain, apiUrl>>
    /\ \E address \in Addresses :
        LET f == [NewFrame("claimWithdrawRequest", address, Dec(0, 0), 0)
                     EXCEPT !.wrap = "CLAIM_WITHDRAW_REQUEST_ERROR"]
        IN  IF ~isAddress(address)
            THEN Throw(f, <<>>, handleError(f.wrap, throwError("ADDRESS_FORMAT_ERROR", NaN)))
            ELSE readContract("withdrawRequest", f, contractAccounting.address,
                              "withdrawRequest", <<>>)

withdrawRequest_Returns ==
    /\ pc = "withdrawRequest"
    /\ UNCHANGED <<binding, selected, berrachain, apiUrl>>
    /\ \E r \in {RpcFailure} \cup {RpcPair(v, w) : v \in WeiValues, w \in WeiValues} :
        LET f == [frame EXCEPT !.requested = fromWeiToEther(r.v),
                               !.readyForClaim = fromWeiToEther(r.w)]
        IN  IF ~r.ok
            THEN Throw(frame, rpcLog,
                       handleError(frame.wrap,
                           handleError("WITHDRAW_REQUEST_ERROR",
                                       RawError("TransportError"))))
            ELSE IF claimCheck(f.requested, f.readyForClaim) # ""
            THEN Throw(f, rpcLog,
                       handleError(f.wrap,
                           throwError(claimCheck(f.requested, f.readyForClaim), NaN)))
            ELSE getTransaction(f, encodeFunctionData("claimWithdrawRequest", NaN, 0, 0),
                                contractAccounting.address, BN(0, 0), rpcLog)

----------------------------------------------------------------------------
(* autocompound and activateStake *)

\* mutant: rewards under one ether count as none
noRewards_BelowOneEther(rewards) == BNlt(rewards, BN(1, 0))

\* rewards.isZero()
noRewards(rewards) == BNisZero(rewards)

autocompound ==
    /\ pc = "idle"
    /\ UNCHANGED <<binding, selected, berrachain, apiUrl>>
    /\ \E address \in Addresses :
        LET f == [NewFrame("autocompound", address, Dec(0, 0), 0)
                     EXCEPT !.wrap = "AUTOCOMPOUND_ERROR"]
        IN  IF ~isAddress(address)
            THEN Throw(f, <<>>, handleError(f.wrap, throwError("ADDRESS_FORMAT_ERROR", NaN)))
            ELSE readContract("readyforAutocompoundRewardsAmount", f,
                              contractAccounting.address,
                              "readyforAutocompoundRewardsAmount", <<>>)

readyforAutocompoundRewardsAmount_Returns ==
    /\ pc = "readyforAutocompoundRewardsAmount"
    /\ UNCHANGED <<binding, selected, berrachain, apiUrl>>
    /\ \E r \in {RpcFailure} \cup {RpcValue(v) : v \in WeiValues} :
        LET f == [frame EXCEPT !.rewards = fromWeiToEther(r.v)]
        IN  IF ~r.ok
            THEN Throw(frame, rpcLog,
                       handleError(frame.wrap,
                           handleError("READY_FOR_AUTOCOMPOUND_REWARDS_AMOUNT_ERROR",
                                       RawError("TransportError"))))
            ELSE IF noRewards(f.rewards)
            THEN Throw(f, rpcLog, handleError(f.wrap, throwError("NO_REWARDS_MESSAGE", NaN)))
            ELSE getTransaction(f, encodeFunctionData("autocompound", NaN, 0, 0),
                                contractAccounting.address, BN(0, 0), rpcLog)

activateStake ==
    /\ pc = "idle"
    /\ UNCHANGED <<binding, selected, berrachain, apiUrl>>
    /\ \E address \in Addresses :
        LET f == [NewFrame("activateStake", address, Dec(0, 0), 0)
                     EXCEPT !.wrap = "ACTIVATE_STAKE_ERROR"]
        IN  IF ~isAddress(address)
            THEN Throw(f, <<>>, handleError(f.wrap, throwError("ADDRESS_FORMAT_ERROR", NaN)))
            ELSE getTransaction(f, encodeFunctionData("activateStake", NaN, 0, 0),
                                contractPool.address, BN(0, 0), <<>>)

----------------------------------------------------------------------------
(* Balance reads *)

\* a read method that takes a user address: inside its try block the address
\* is checked, then the accounting contract is read
addressRead(op, wrap) ==
    /\ pc = "idle"
    /\ UNCHANGED <<binding, selected, berrachain, apiUrl>>
    /\ \E address \in Addresses :
        LET f == [NewFrame(op, address, Dec(0, 0), 0) EXCEPT !.wrap = wrap]
        IN  IF ~isAddress(address)
            THEN Throw(f, <<>>, handleError(wrap, throwError("ADDRESS_FORMAT_ERROR", NaN)))
            ELSE readContract(IF op = "withdrawRequest" THEN "withdrawRequestRead"
                              ELSE "balanceRead",
                              f, contractAccounting.address, op, <<>>)

pendingBalanceOf == addressRead("pendingBalanceOf", "PENDING_BALANCE_OF_ERROR")

pendingDepositedBalanceOf ==
    addressRead("pendingDepositedBalanceOf", "PENDING_DEPOSITED_BALANCE_OF_ERROR")

depositedBalanceOf == addressRead("depositedBalanceOf", "DEPOSITED_BALANCE_OF_ERROR")

pendingRestakedRewardOf ==
    addressRead("pendingRestakedRewardOf", "PENDING_RESTAKED_REWARD_OF_ERROR")

restakedRewardOf == addressRead("restakedRewardOf", "RESTAKED_REWARD_OF_ERROR")

autocompoundBalanceOf ==
    addressRead("autocompoundBalanceOf", "AUTOCOMPOUND_BALANCE_OF_ERROR")

withdrawRequest == addressRead("withdrawRequest", "WITHDRAW_REQUEST_ERROR")

\* return this.fromWeiToEther(result)
balanceRead_Returns ==
    /\ pc = "balanceRead"
    /\ UNCHANGED <<binding, selected, berrachain, apiUrl>>
    /\ \E r \in {RpcFailure} \cup {RpcValue(v) : v \in WeiValues} :
        IF r.ok
        THEN /\ pc' = "done"
             /\ result' = ReturnedValue(fromWeiToEther(r.v))
             /\ UNCHANGED <<frame, rpcLog>>
        ELSE Throw(frame, rpcLog, handleError(frame.wrap, RawError("TransportError")))

\* return {requested: fromWeiToEther(result[0]), readyForClaim: fromWeiToEther(result[1])}
withdrawRequestRead_Returns ==
    /\ pc = "withdrawRequestRead"
    /\ UNCHANGED <<binding, selected, berrachain, apiUrl>>
    /\ \E r \in {RpcFailure} \cup {RpcPair(v, w) : v \in WeiValues, w \in WeiValues} :
        IF r.ok
        THEN /\ pc' = "done"
             /\ frame' = [frame EXCEPT !.requested = fromWeiToEther(r.v),
                                       !.readyForClaim = fromWeiToEther(r.w)]
             /\ result' = ReturnedValue([requested |-> fromWeiToEther(r.v),
                                         readyForClaim |-> fromWeiToEther(r.w)])
             /\ UNCHANGED rpcLog
        ELSE Throw(frame, rpcLog, handleError(frame.wrap, RawError("TransportError")))

----------------------------------------------------------------------------
(* poolBalances and userBalances *)

MULTICALL_CONTRACT_ADDRESS == <<"multicall", "MULTICALL_CONTRACT_ADDRESS">>

poolMethods ==
    <<"balance", "pendingBalance", "pendingDepositedBalance", "pendingRestakedRewards",
      "readyforAutocompoundRewardsAmount">>

userMethods ==
    <<"pendingBalanceOf", "pendingDepositedBalanceOf", "pendingRestakedRewardOf",
      "autocompoundBalanceOf", "depositedBalanceOf">>

\* methods.map((functionName) => ({functionName, address, abi, args}))
multicallContracts(methods, args) ==
    [i \in 1..Len(methods) |->
        [functionName |-> methods[i], address |-> contractAccounting.address,
         abi |-> contractAccounting.abi, args |-> args]]

\* await this.client.multicall({contracts, allowFailure: false, multicallAddress})
multicall(f, methods, args) ==
    /\ pc' = "multicall"
    /\ frame' = f
    /\ rpcLog' = <<Request("multicall", contractAccounting.address, "",
                           [fn |-> "multicall",
                            contracts |-> multicallContracts(methods, args),
                            allowFailure |-> FALSE,
                            multicallAddress |-> MULTICALL_CONTRACT_ADDRESS],
                           "")>>
    /\ result' = NoResult

poolBalances ==
    /\ pc = "idle"
    /\ UNCHANGED <<binding, selected, berrachain, apiUrl>>
    /\ multicall([NewFrame("poolBalances", "", Dec(0, 0), 0)
                     EXCEPT !.wrap = "POOL_BALANCES_ERROR"],
                 poolMethods, <<>>)

\* the address goes into the sub-calls unchecked
userBalances ==
    /\ pc = "idle"
    /\ UNCHANGED <<binding, selected, berrachain, apiUrl>>
    /\ \E address \in Addresses :
        multicall([NewFrame("userBalances", address, Dec(0, 0), 0)
                      EXCEPT !.wrap = "USER_BALANCES_ERROR"],
                  userMethods, <<address>>)

\* what the node answers to a multicall: nothing (the request failed), or one
\* outcome per sub-call, of which at most one is a failure here; the values
\* differ from one index to the next
MulticallFailure == <<>>
MulticallResponses ==
    {[i \in 1..5 |-> IF i = bad THEN RpcFailure
                     ELSE RpcValue(BN(5 * ((k + i) % (MaxHalfEth + 1)), 17))] :
        k \in 0..MaxHalfEth, bad \in 0..5}

\* with allowFailure false the multicall rejects when a sub-call failed
multicallRejects(results) ==
    \/ results = MulticallFailure
    \/ \E i \in 1..Len(results) : ~results[i].ok

\* mutant: every entry is taken from the first result
aggregatedBalances_FirstResult(methods, results) ==
    [method \in {methods[i] : i \in 1..Len(methods)} |->
        toFixed(fromWeiToEther(results[1].v))]

\* Object.fromEntries(methods.map((method, index) =>
\*     [method, this.fromWeiToEther(results[index]).toFixed()]))
aggregatedBalances(methods, results) ==
    [method \in {methods[i] : i \in 1..Len(methods)} |->
        toFixed(fromWeiToEther(
            results[CHOOSE i \in 1..Len(methods) : methods[i] = method].v))]

\* the client encodes the address argument of every sub-call and rejects the
\* multicall when it is malformed
multicall_Returns ==
    /\ pc = "multicall"
    /\ UNCHANGED <<binding, selected, berrachain, apiUrl>>
    /\ \E results \in {MulticallFailure} \cup MulticallResponses :
        /\ (frame.op = "userBalances" /\ ~isAddress(frame.address)) =>
               results = MulticallFailure
        /\ LET f == [frame EXCEPT !.results = results]
               methods == IF frame.op = "poolBalances" THEN poolMethods ELSE userMethods
           IN  IF multicallRejects(results)
               THEN Throw(f, rpcLog, handleError(f.wrap, RawError("MulticallError")))
               ELSE /\ pc' = "done"
                    /\ frame' = f
                    /\ result' = ReturnedValue(aggregatedBalances(methods, results))
                    /\ UNCHANGED rpcLog

----------------------------------------------------------------------------
(* getTransaction, after the await *)

estimateGas_Returns ==
    /\ pc = "estimateGas"
    /\ UNCHANGED <<binding, selected, berrachain, apiUrl>>
    /\ \E r \in {RpcFailure} \cup {RpcGas(g) : g \in GasValues} :
        IF r.ok
        THEN /\ pc' = "done"
             /\ frame' = [frame EXCEPT !.gasConsumption = r.gas]
             /\ result' = Returned([frame.tx EXCEPT !.gasLimit = calculateGasLimit(r.gas)])
             /\ UNCHANGED rpcLog
        ELSE Throw(frame, rpcLog, handleError(frame.wrap, RawError("TransportError")))

\* the caller receives the outcome of the finished call; the adapter keeps
\* nothing of it
settle ==
    /\ pc = "done"
    /\ pc' = "idle"
    /\ frame' = NoFrame
    /\ rpcLog' = <<>>
    /\ result' = NoResult
    /\ UNCHANGED <<binding, selected, berrachain, apiUrl>>

----------------------------------------------------------------------------
(* Polygon adapter *)

\* unbond nonces range over 1 .. MaxNonce
MaxNonce == 2
\* withdraw epochs range over 0 .. MaxEpoch, the current epoch over
\* WITHDRAW_EPOCH_DELAY - 1 .. WITHDRAW_EPOCH_DELAY + MaxEpoch
MaxEpoch == 1
MaxCoeff == 12      \* base-unit inputs are c * 10^e with c up to MaxCoeff
MaxWeiExp == 12     \* and e up to MaxWeiExp
MaxStatusCode == 3  \* validator status codes run from 0 to MaxStatusCode

\* one token, in base units
MIN_AMOUNT == BN(1, 18)
WITHDRAW_EPOCH_DELAY == 80

ADDRESS_CONTRACT_APPROVE == <<"polygon", "ADDRESS_CONTRACT_APPROVE">>
ADDRESS_CONTRACT_APPROVE_POL == <<"polygon", "ADDRESS_CONTRACT_APPROVE_POL">>
ADDRESS_CONTRACT_BUY == <<"polygon", "ADDRESS_CONTRACT_BUY">>
ADDRESS_CONTRACT_STAKING == <<"polygon", "ADDRESS_CONTRACT_STAKING">>

\* the contract bindings assigned by the constructor
contract_approve == [abi |-> "ABI_CONTRACT_APPROVE", address |-> ADDRESS_CONTRACT_APPROVE]
contract_approve_pol ==
    [abi |-> "ABI_CONTRACT_APPROVE", address |-> ADDRESS_CONTRACT_APPROVE_POL]
contract_buy == [abi |-> "ABI_CONTRACT_BUY", address |-> ADDRESS_CONTRACT_BUY]
contract_staking == [abi |-> "ABI_CONTRACT_STAKING", address |-> ADDRESS_CONTRACT_STAKING]

\* the codes of the Polygon adapter's error table
POLYGON_ERROR_MESSAGES ==
    {"TRANSACTION_LOADING_ERR", "APPROVE_ERR", "ALLOWANCE_ERR", "DELEGATE_ERR",
     "DELEGATED_BALANCE_ERR", "UNDELEGATE_ERR", "GET_REWARD_ERR", "GET_ALLOWANCE_ERR",
     "GET_TOTAL_DELEGATE_ERR", "GET_UNBOND_ERR", "GET_UNBOND_NONCE_ERR"}

\* throwError / handleError of the base class, on the Polygon table
Polygon_throwError(code) ==
    IF code \in POLYGON_ERROR_MESSAGES THEN [code |-> code, detail |-> NaN]
    ELSE RawError("UnknownErrorCode")

Polygon_handleError(code, error) ==
    IF error.code \in POLYGON_ERROR_MESSAGES THEN error
    ELSE Polygon_throwError(code)

\* authorisation tokens; the validation service knows which are valid
Tokens == {"valid-token", "invalid-token"}
isValidToken(token) == token = "valid-token"
Hashes == {"0xHash"}
UnbondNonceArgs == 0..MaxNonce
Nonces == 1..MaxNonce
WithdrawEpochs == 0..MaxEpoch
CurrentEpochs == (WITHDRAW_EPOCH_DELAY - 1)..(WITHDRAW_EPOCH_DELAY + MaxEpoch)

\* formatUnits(value, decimals), read back as a BigNumber
formatUnits(value, decimals) == BN(value.c, value.e - decimals)

NoUnbond == [amount |-> NaN, withdrawEpoch |-> 0, unbondNonces |-> 0]

Polygon_NoData == [fn |-> "", args |-> <<>>]
Polygon_encodeFunctionData(fn, args) == [fn |-> fn, args |-> args]

\* TransactionRequest
TransactionRequest(from, to, gasLimit, data) ==
    [from |-> from, to |-> to, gasLimit |-> gasLimit, data |-> data]
Polygon_NoTx == TransactionRequest("", <<"", "">>, 0, Polygon_NoData)

Polygon_Frame(op, token, address, amount, isPOL, unbondNonce, hash) ==
    [op |-> op, token |-> token, address |-> address, amount |-> amount,
     isPOL |-> isPOL, unbondNonce |-> unbondNonce, hash |-> hash, wrap |-> "",
     tokenValid |-> "unknown", amountWei |-> NaN, allowedAmount |-> NaN,
     delegatedBalance |-> NaN, unbondNoncesRes |-> 0, unbond |-> NoUnbond,
     currentEpoch |-> -1, receipt |-> "", stats |-> "none", tx |-> Polygon_NoTx]

\* the base URLs a caller hands setApiUrl
ApiUrls == {"https://api-a", "https://api-b"}

\* setApiUrl(url): apiUrl = url
setApiUrl ==
    /\ \E url \in ApiUrls : apiUrl' = url
    /\ UNCHANGED <<binding, selected, berrachain, pc, frame, rpcLog, result>>

\* mutant: a call keeps the base URL of its first request
ApiClient_UrlOfCall ==
    [network |-> "api",
     url |-> IF \E i \in 1..Len(rpcLog) : rpcLog[i].client.network = "api"
             THEN rpcLog[CHOOSE i \in 1..Len(rpcLog) :
                             rpcLog[i].client.network = "api"].client.url
             ELSE <<"api", apiUrl>>]

\* the off-chain service, as the target of a logged request: the template
\* `${apiUrl}/everstake-wallet/...` is evaluated when the request is made
ApiClient == [network |-> "api", url |-> <<"api", apiUrl>>]

\* fetch(`${apiUrl}/everstake-wallet/...`)
ApiRequest(method, path, token, body, address) ==
    [method |-> method, client |-> ApiClient, to |-> <<"api", path, token>>,
     fn |-> "", data |-> body, account |-> address]

ReturnedFlag(b) == [status |-> "value", error |-> NoError, tx |-> NoTx, value |-> b]

\* await CheckToken(token)
CheckToken(f, log) ==
    /\ pc' = "CheckToken"
    /\ frame' = f
    /\ rpcLog' = Append(log, ApiRequest("CheckToken", "token/check", f.token,
                                        Polygon_NoData, ""))
    /\ result' = NoResult

\* await SetStats({token, action, amount, address, chain})
SetStats(f, action, log) ==
    /\ pc' = "SetStats"
    /\ frame' = [f EXCEPT !.stats = "sent"]
    /\ rpcLog' = Append(log, ApiRequest("SetStats", "stats/set", f.token,
                                        Polygon_encodeFunctionData(action, <<f.amount>>),
                                        f.address))
    /\ result' = NoResult

\* await this.client.readContract({address, functionName, args})
Polygon_readContract(label, f, to, fn, args, log) ==
    /\ pc' = label
    /\ frame' = f
    /\ rpcLog' = Append(log, Request("readContract", to, fn,
                                     Polygon_encodeFunctionData(fn, args), ""))
    /\ result' = NoResult

\* getTransaction(data, address, contractAddress): estimateGas is awaited
Polygon_getTransaction(f, data, contractAddress, log) ==
    /\ pc' = "Polygon_estimateGas"
    /\ frame' = [f EXCEPT !.tx = TransactionRequest(f.address, contractAddress, 0, data)]
    /\ rpcLog' = Append(log, Request("estimateGas", contractAddress, data.fn, data,
                                     f.address))
    /\ result' = NoResult

Polygon_estimateGas_Returns ==
    /\ pc = "Polygon_estimateGas"
    /\ UNCHANGED <<binding, selected, berrachain, apiUrl>>
    /\ \E r \in {RpcFailure} \cup {RpcGas(g) : g \in GasValues} :
        IF r.ok
        THEN /\ pc' = "done"
             /\ result' = Returned([frame.tx EXCEPT !.gasLimit = r.gas])
             /\ UNCHANGED <<frame, rpcLog>>
        ELSE Throw(frame, rpcLog, Polygon_handleError(frame.wrap, RawError("TransportError")))

(* isTransactionLoading *)

\* mutant: every failure of the client counts as a missing receipt
receiptOutcome_AnyFailureLoads(kind) ==
    IF kind = "receipt" THEN ReturnedFlag(FALSE) ELSE ReturnedFlag(TRUE)

\* the outcome of isTransactionLoading for what getTransactionReceipt did: it
\* returned a receipt, threw TransactionReceiptNotFoundError, or threw
\* anything else
receiptOutcome(kind) ==
    IF kind = "receipt" THEN ReturnedFlag(FALSE)
    ELSE IF kind = "TransactionReceiptNotFoundError" THEN ReturnedFlag(TRUE)
    ELSE Failed(Polygon_handleError("TRANSACTION_LOADING_ERR", RawError(kind)))

isTransactionLoading ==
    /\ pc = "idle"
    /\ UNCHANGED <<binding, selected, berrachain, apiUrl>>
    /\ \E hash \in Hashes :
        /\ pc' = "getTransactionReceipt"
        /\ frame' = [Polygon_Frame("isTransactionLoading", "", "", Dec(0, 0), FALSE, 0, hash)
                        EXCEPT !.wrap = "TRANSACTION_LOADING_ERR"]
        /\ rpcLog' = <<Request("getTransactionReceipt", <<"", "">>, "",
                               Polygon_encodeFunctionData("", <<hash>>), "")>>
        /\ result' = NoResult

getTransactionReceipt_Returns ==
    /\ pc = "getTransactionReceipt"
    /\ UNCHANGED <<binding, selected, berrachain, apiUrl>>
    /\ \E kind \in {"receipt", "TransactionReceiptNotFoundError", "TransportError"} :
        /\ pc' = "done"
        /\ frame' = [frame EXCEPT !.receipt = kind]
        /\ result' = receiptOutcome(kind)
        /\ UNCHANGED rpcLog

(* approve *)

\* mutant: isLessThanOrEqualTo in place of isLessThan
Polygon_belowMinAmount_Lte(amountWei) == ~BNgt(amountWei, MIN_AMOUNT)

\* new BigNumber(amountWei).isLessThan(MIN_AMOUNT)
Polygon_belowMinAmount(amountWei) == BNlt(amountWei, MIN_AMOUNT)

approve ==
    /\ pc = "idle"
    /\ UNCHANGED <<binding, selected, berrachain, apiUrl>>
    /\ \E address \in Addresses, amount \in StringAmounts, isPOL \in BOOLEAN :
        LET amountWei == parseUnits(amount, ETHER_DECIMALS)
            f == [Polygon_Frame("approve", "", address, amount, isPOL, 0, "")
                     EXCEPT !.wrap = "APPROVE_ERR",
                            !.amountWei = IF parseUnitsThrows(amount) THEN NaN
                                          ELSE amountWei]
            contract == IF isPOL THEN contract_approve_pol ELSE contract_approve
        IN  IF parseUnitsThrows(amount)
            THEN Throw(f, <<>>, RawError("InvalidDecimalNumberError"))
            ELSE IF Polygon_belowMinAmount(amountWei)
            THEN Throw(f, <<>>, RawError("Min Amount"))
            ELSE Polygon_getTransaction(f,
                     Polygon_encodeFunctionData("approve",
                                                <<ADDRESS_CONTRACT_STAKING, amountWei>>),
                     contract.address, <<>>)

(* delegate and undelegate *)

delegate ==
    /\ pc = "idle"
    /\ UNCHANGED <<binding, selected, berrachain, apiUrl>>
    /\ \E token \in Tokens, address \in Addresses, amount \in StringAmounts,
          isPOL \in BOOLEAN :
        CheckToken([Polygon_Frame("delegate", token, address, amount, isPOL, 0, "")
                       EXCEPT !.wrap = "DELEGATE_ERR"], <<>>)

undelegate ==
    /\ pc = "idle"
    /\ UNCHANGED <<binding, selected, berrachain, apiUrl>>
    /\ \E token \in Tokens, address \in Addresses, amount \in StringAmounts,
          isPOL \in BOOLEAN :
        CheckToken([Polygon_Frame("undelegate", token, address, amount, isPOL, 0, "")
                       EXCEPT !.wrap = "UNDELEGATE_ERR"], <<>>)

\* mutant: the answer of the validation service is ignored
tokenRejected_Never(valid) == FALSE

\* the else branch of if (await CheckToken(token))
tokenRejected(valid) == ~valid

\* the continuation of delegate / undelegate after CheckToken
\* getAllowance(owner, isPOL = false): the token contract that is read
getAllowanceContract(isPOL) == IF isPOL THEN contract_approve_pol ELSE contract_approve

CheckToken_Returns ==
    /\ pc = "CheckToken"
    /\ UNCHANGED <<binding, selected, berrachain, apiUrl>>
    /\ \E ok \in BOOLEAN :
        LET valid == isValidToken(frame.token)
            amountWei == parseUnits(frame.amount, ETHER_DECIMALS)
            f == [frame EXCEPT !.tokenValid = IF valid THEN "valid" ELSE "invalid",
                               !.amountWei = IF parseUnitsThrows(frame.amount) THEN NaN
                                             ELSE amountWei]
        IN  IF ~ok
            THEN \* the fetch failed; CheckToken is awaited outside the try block
                 Throw(frame, rpcLog, RawError("FetchError"))
            ELSE IF tokenRejected(valid)
            THEN Throw(f, rpcLog, RawError("TOKEN_ERROR"))
            ELSE IF f.op = "delegate"
            THEN IF parseUnitsThrows(f.amount)
                 THEN Throw(f, rpcLog, RawError("InvalidDecimalNumberError"))
                 ELSE IF Polygon_belowMinAmount(amountWei)
                 THEN Throw(f, rpcLog, RawError("Min Amount"))
                 ELSE \* this.getAllowance(address): isPOL takes its default, false
                      Polygon_readContract("allowance", f,
                                           getAllowanceContract(FALSE).address,
                                           "allowance",
                                           <<f.address, ADDRESS_CONTRACT_STAKING>>, rpcLog)
            ELSE IF parseUnitsThrows(f.amount)
                 THEN Throw(f, rpcLog,
                            Polygon_handleError(f.wrap,
                                                RawError("InvalidDecimalNumberError")))
                 ELSE Polygon_readContract("getTotalStake", f, contract_buy.address,
                                           "getTotalStake", <<f.address>>, rpcLog)

\* allowedAmount && new BigNumber(allowedAmount.toString()).isLessThan(amountWei):
\* a bigint of zero is falsy
insufficientAllowance(allowedAmount, amountWei) ==
    ~BNisZero(allowedAmount) /\ BNlt(allowedAmount, amountWei)

\* the continuation of delegate after getAllowance
allowance_Returns ==
    /\ pc = "allowance"
    /\ UNCHANGED <<binding, selected, berrachain, apiUrl>>
    /\ \E r \in {RpcFailure} \cup {RpcValue(v) : v \in WeiValues} :
        LET f == [frame EXCEPT !.allowedAmount = r.v]
            data == Polygon_encodeFunctionData(
                        IF f.isPOL THEN "buyVoucherPOL" ELSE "buyVoucher",
                        <<f.amountWei, 0>>)
            tx == TransactionRequest(f.address, ADDRESS_CONTRACT_BUY,
                                     "DELEGATE_BASE_GAS", data)
        IN  IF ~r.ok
            THEN Throw(frame, rpcLog,
                       Polygon_handleError(frame.wrap,
                           Polygon_handleError("GET_ALLOWANCE_ERR",
                                               RawError("TransportError"))))
            ELSE IF insufficientAllowance(r.v, f.amountWei)
            THEN Throw(f, rpcLog,
                       Polygon_handleError(f.wrap, Polygon_throwError("ALLOWANCE_ERR")))
            ELSE SetStats([f EXCEPT !.tx = tx], "stake", rpcLog)

\* mutant: isLessThanOrEqualTo in place of isLessThan
insufficientDelegated_Lte(delegatedBalance, amount) ==
    ~BNgt(delegatedBalance, BigNumberOf(amount))

\* delegatedBalance && delegatedBalance.isLessThan(BigNumber(amount)): a
\* BigNumber object is always truthy
insufficientDelegated(delegatedBalance, amount) ==
    BNlt(delegatedBalance, BigNumberOf(amount))

\* mutant: the report is sent, unawaited, before the balance is checked
checkDelegatedThenReport_ReportFirst(f, log) ==
    IF insufficientDelegated(f.delegatedBalance, f.amount)
    THEN Throw(f, Append(log, ApiRequest("SetStats", "stats/set", f.token,
                                         Polygon_encodeFunctionData("unstake", <<f.amount>>),
                                         f.address)),
               Polygon_handleError(f.wrap, Polygon_throwError("DELEGATED_BALANCE_ERR")))
    ELSE SetStats(f, "unstake", log)

\* undelegate from the balance check to the awaited report
checkDelegatedThenReport(f, log) ==
    IF insufficientDelegated(f.delegatedBalance, f.amount)
    THEN Throw([f EXCEPT !.tx = Polygon_NoTx], log,
               Polygon_handleError(f.wrap, Polygon_throwError("DELEGATED_BALANCE_ERR")))
    ELSE SetStats(f, "unstake", log)

\* the continuation of undelegate after getTotalDelegate
getTotalStake_Returns ==
    /\ pc = "getTotalStake"
    /\ UNCHANGED <<binding, selected, berrachain, apiUrl>>
    /\ \E r \in {RpcFailure} \cup {RpcValue(v) : v \in WeiValues} :
        LET delegatedBalance == formatUnits(r.v, ETHER_DECIMALS)
            f == [frame EXCEPT !.delegatedBalance = delegatedBalance]
            data == Polygon_encodeFunctionData(
                        IF f.isPOL THEN "sellVoucher_newPOL" ELSE "sellVoucher_new",
                        <<f.amountWei, f.amountWei>>)
            tx == TransactionRequest(f.address, ADDRESS_CONTRACT_BUY,
                                     "UNDELEGATE_BASE_GAS", data)
        IN  IF ~r.ok
            THEN Throw(frame, rpcLog,
                       Polygon_handleError(frame.wrap,
                           Polygon_handleError("GET_TOTAL_DELEGATE_ERR",
                                               RawError("TransportError"))))
            ELSE checkDelegatedThenReport([f EXCEPT !.tx = tx], rpcLog)

\* mutant: the report is not awaited
awaitSetStats_FireAndForget(ok, f) == Returned(f.tx)

\* await SetStats(...); return tx, inside the try block
awaitSetStats(ok, f) ==
    IF ok THEN Returned(f.tx)
    ELSE Failed(Polygon_handleError(f.wrap, RawError("FetchError")))

SetStats_Returns ==
    /\ pc = "SetStats"
    /\ UNCHANGED <<binding, selected, berrachain, apiUrl>>
    /\ \E ok \in BOOLEAN :
        /\ pc' = "done"
        /\ frame' = [frame EXCEPT !.stats = IF ok THEN "ok" ELSE "failed"]
        /\ result' = awaitSetStats(ok, frame)
        /\ UNCHANGED rpcLog

(* claimUndelegate *)

\* mutant: isLessThanOrEqualTo in place of isLessThan
epochNotReached_Lte(currentEpoch, withdrawEpoch) ==
    currentEpoch <= withdrawEpoch + WITHDRAW_EPOCH_DELAY

\* BigNumber(currentEpoch).isLessThan(
\*     BigNumber(unbond.withdrawEpoch).plus(BigNumber(WITHDRAW_EPOCH_DELAY)))
epochNotReached(currentEpoch, withdrawEpoch) ==
    currentEpoch < withdrawEpoch + WITHDRAW_EPOCH_DELAY

\* claimUndelegate calls getUnbond, which first reads the account's nonce
claimUndelegate ==
    /\ pc = "idle"
    /\ UNCHANGED <<binding, selected, berrachain, apiUrl>>
    /\ \E address \in Addresses, unbondNonce \in UnbondNonceArgs, isPOL \in BOOLEAN :
        Polygon_readContract("unbondNonces",
            Polygon_Frame("claimUndelegate", "", address, Dec(0, 0), isPOL, unbondNonce, ""),
            contract_buy.address, "unbondNonces", <<address>>, <<>>)

\* getUnbond after getUnbondNonces
unbondNonces_Returns ==
    /\ pc = "unbondNonces"
    /\ UNCHANGED <<binding, selected, berrachain, apiUrl>>
    /\ \E ok \in BOOLEAN, unbondNoncesRes \in Nonces :
        LET unbondNonces == IF frame.unbondNonce = 0 THEN unbondNoncesRes
                            ELSE frame.unbondNonce
            f == [frame EXCEPT !.unbondNoncesRes = unbondNoncesRes,
                               !.unbond.unbondNonces = unbondNonces]
        IN  IF ~ok
            THEN Throw(frame, rpcLog,
                       Polygon_handleError("GET_UNBOND_ERR",
                           Polygon_handleError("GET_UNBOND_NONCE_ERR",
                                               RawError("TransportError"))))
            ELSE Polygon_readContract("unbonds_new", f, contract_buy.address,
                                      "unbonds_new", <<f.address, unbondNonces>>, rpcLog)

\* getUnbond after unbonds_new, and claimUndelegate up to getCurrentEpoch
unbonds_new_Returns ==
    /\ pc = "unbonds_new"
    /\ UNCHANGED <<binding, selected, berrachain, apiUrl>>
    /\ \E ok \in BOOLEAN, res0 \in WeiValues, res1 \in WithdrawEpochs :
        LET f == [frame EXCEPT !.unbond.amount = formatUnits(res0, ETHER_DECIMALS),
                               !.unbond.withdrawEpoch = res1]
        IN  IF ~ok
            THEN Throw(frame, rpcLog,
                       Polygon_handleError("GET_UNBOND_ERR", RawError("TransportError")))
            ELSE IF BNisZero(f.unbond.amount)
            THEN Throw(f, rpcLog, RawError("Nothing to claim"))
            ELSE Polygon_readContract("currentEpoch", f, contract_staking.address,
                                      "currentEpoch", <<>>, rpcLog)

\* claimUndelegate after getCurrentEpoch, which wraps no failure
currentEpoch_Returns ==
    /\ pc = "currentEpoch"
    /\ UNCHANGED <<binding, selected, berrachain, apiUrl>>
    /\ \E ok \in BOOLEAN, currentEpoch \in CurrentEpochs :
        LET f == [frame EXCEPT !.currentEpoch = currentEpoch]
            data == Polygon_encodeFunctionData(
                        IF f.isPOL THEN "unstakeClaimTokens_newPOL"
                        ELSE "unstakeClaimTokens_new",
                        <<f.unbond.unbondNonces>>)
        IN  IF ~ok
            THEN Throw(frame, rpcLog, RawError("TransportError"))
            ELSE IF epochNotReached(currentEpoch, f.unbond.withdrawEpoch)
            THEN Throw(f, rpcLog, RawError("Current epoch less than withdraw delay"))
            ELSE /\ pc' = "done"
                 /\ frame' = f
                 /\ result' = Returned(TransactionRequest(f.address, ADDRESS_CONTRACT_BUY,
                                           "CLAIM_UNDELEGATE_BASE_GAS", data))
                 /\ UNCHANGED rpcLog

(* reward and restake *)

reward ==
    /\ pc = "idle"
    /\ UNCHANGED <<binding, selected, berrachain, apiUrl>>
    /\ \E address \in Addresses, isPOL \in BOOLEAN :
        /\ pc' = "done"
        /\ frame' = Polygon_Frame("reward", "", address, Dec(0, 0), isPOL, 0, "")
        /\ rpcLog' = <<>>
        /\ result' = Returned(TransactionRequest(address, ADDRESS_CONTRACT_BUY,
                         "CLAIM_REWARDS_BASE_GAS",
                         Polygon_encodeFunctionData(
                             IF isPOL THEN "withdrawRewardsPOL" ELSE "withdrawRewards",
                             <<>>)))

restake ==
    /\ pc = "idle"
    /\ UNCHANGED <<binding, selected, berrachain, apiUrl>>
    /\ \E address \in Addresses, isPOL \in BOOLEAN :
        /\ pc' = "done"
        /\ frame' = Polygon_Frame("restake", "", address, Dec(0, 0), isPOL, 0, "")
        /\ rpcLog' = <<>>
        /\ result' = Returned(TransactionRequest(address, ADDRESS_CONTRACT_BUY,
                         "RESTAKE_BASE_GAS",
                         Polygon_encodeFunctionData(
                             IF isPOL THEN "restakePOL" ELSE "restake", <<>>)))

----------------------------------------------------------------------------
(* Berrachain adapter *)

GAS_RESERVE == 50000

Network == {"mainnet", "testnet"}

\* the values a caller can hand the constructor as its network argument: the
\* two of the Network type and one the type does not admit
UnsupportedNetworks == {"devnet"}
NetworkArgs == Network \cup UnsupportedNetworks

\* the validator and the BGT contract binding the constructor assigns
ValidatorOf(n) == IF n = "mainnet" THEN "MAINNET_VALIDATOR" ELSE "TESTNET_VALIDATOR"
BGTContract(n) ==
    [network |-> n,
     abi |-> IF n = "mainnet" THEN "MAINNET_ABI" ELSE "TESTNET_ABI",
     contractAddress |-> IF n = "mainnet" THEN <<n, "MAINNET_BGT_CONTRACT_ADDRESS">>
                         ELSE <<n, "TESTNET_BGT_CONTRACT_ADDRESS">>]
NoBGTContract == [network |-> "", abi |-> "", contractAddress |-> <<"", "">>]

\* the codes of the Berrachain adapter's error table
BERRACHAIN_ERROR_MESSAGES ==
    {"NETWORK_ERROR", "BALANCE_ERROR", "ALLOWANCE_ERROR", "APPROVE_FOR_STAKE_ERROR",
     "BOOSTED_ERROR", "BOOSTS_ERROR", "BOOST_QUEUE_ERROR", "ACTIVATE_BOOST_ERROR",
     "ADDRESS_FORMAT_ERROR", "CANCEL_BOOST_ERROR", "DROP_BOOST_ERROR", "BOOST_ERROR",
     "NOT_AVAILABLE_NETWORK", "QUEUE_DROP_BOOST_ERROR", "CANCEL_DROP_BOOST_ERROR"}

\* throwError / handleError of the base class, on the Berrachain table
Berrachain_throwError(code) ==
    IF code \in BERRACHAIN_ERROR_MESSAGES THEN [code |-> code, detail |-> NaN]
    ELSE RawError("UnknownErrorCode")

Berrachain_handleError(code, error) ==
    IF error.code \in BERRACHAIN_ERROR_MESSAGES THEN error
    ELSE Berrachain_throwError(code)

\* Transaction
Transaction(from, to, value, gasLimit, data) ==
    [from |-> from, to |-> to, value |-> value, gasLimit |-> gasLimit, data |-> data]

Berrachain_Frame(op, address, amount, wrap) ==
    [op |-> op, address |-> address, amount |-> amount, wrap |-> wrap,
     gasConsumption |-> 0, tx |-> Transaction("", <<"", "">>, NaN, 0, Polygon_NoData)]

\* Number(gasConsumption) + GAS_RESERVE
Berrachain_calculateGasLimit(gasConsumption) == gasConsumption + GAS_RESERVE

\* getTransaction(data, address): estimateGas on the BGT contract is awaited
Berrachain_getTransaction(f, data) ==
    /\ pc' = "Berrachain_estimateGas"
    /\ frame' = [f EXCEPT !.tx = Transaction(f.address, btg.contractAddress, BN(0, 0),
                                             0, data)]
    /\ rpcLog' = <<Request("estimateGas", btg.contractAddress, data.fn, data, f.address)>>
    /\ result' = NoResult

\* a builder whose call data takes parseUnits(amount, 18): the call data is
\* encoded inside the try block, then getTransaction is called
Berrachain_withAmount(f, fn) ==
    IF parseUnitsThrows(f.amount)
    THEN Throw(f, <<>>, Berrachain_handleError(f.wrap, RawError("InvalidDecimalNumberError")))
    ELSE Berrachain_getTransaction(f,
             Polygon_encodeFunctionData(fn,
                 <<validator, parseUnits(f.amount, ETHER_DECIMALS)>>))

\* the constructor returned: an instance exists
constructed == selected.error = NoError

Berrachain_approveForStake ==
    /\ constructed
    /\ pc = "idle"
    /\ UNCHANGED <<binding, selected, berrachain, apiUrl>>
    /\ \E address \in Addresses, amount \in StringAmounts :
        LET f == Berrachain_Frame("approveForStake", address, amount,
                                  "APPROVE_FOR_STAKE_ERROR")
        IN  IF parseUnitsThrows(amount)
            THEN Throw(f, <<>>,
                       Berrachain_handleError(f.wrap, RawError("InvalidDecimalNumberError")))
            ELSE Berrachain_getTransaction(f,
                     Polygon_encodeFunctionData("approve",
                         <<btg.contractAddress, parseUnits(amount, ETHER_DECIMALS)>>))

Berrachain_stake ==
    /\ constructed
    /\ pc = "idle"
    /\ UNCHANGED <<binding, selected, berrachain, apiUrl>>
    /\ \E address \in Addresses, amount \in StringAmounts :
        LET f == Berrachain_Frame("stake", address, amount, "BOOST_ERROR")
        IN  IF ~isAddress(address)
            THEN Throw(f, <<>>,
                       Berrachain_handleError(f.wrap,
                                              Berrachain_throwError("ADDRESS_FORMAT_ERROR")))
            ELSE Berrachain_withAmount(f, "queueBoost")

Berrachain_cancelStakeInQueue ==
    /\ constructed
    /\ pc = "idle"
    /\ UNCHANGED <<binding, selected, berrachain, apiUrl>>
    /\ \E address \in Addresses, amount \in StringAmounts :
        LET f == Berrachain_Frame("cancelStakeInQueue", address, amount,
                                  "CANCEL_BOOST_ERROR")
        IN  IF ~isAddress(address)
            THEN Throw(f, <<>>,
                       Berrachain_handleError(f.wrap,
                                              Berrachain_throwError("ADDRESS_FORMAT_ERROR")))
            ELSE Berrachain_withAmount(f, "cancelBoost")

\* the switch on this.btg.network of activateStake: data stays unassigned
\* when no case matches
activateBoostData_AddressFirst(network, address) ==
    Polygon_encodeFunctionData("activateBoost", <<address, validator>>)
activateBoostData(network, address) ==
    IF network = "testnet"
    THEN Polygon_encodeFunctionData("activateBoost", <<validator>>)
    ELSE IF network = "mainnet"
    THEN Polygon_encodeFunctionData("activateBoost", <<address, validator>>)
    ELSE Polygon_NoData

\* the mainnet case of the switch of unstake; the testnet case parses the amount
dropBoostData(network, address) ==
    IF network = "mainnet"
    THEN Polygon_encodeFunctionData("dropBoost", <<address, validator>>)
    ELSE Polygon_NoData

Berrachain_activateStake ==
    /\ constructed
    /\ pc = "idle"
    /\ UNCHANGED <<binding, selected, berrachain, apiUrl>>
    /\ \E address \in Addresses :
        LET f == Berrachain_Frame("activateStake", address, Dec(0, 0),
                                  "ACTIVATE_BOOST_ERROR")
        IN  Berrachain_getTransaction(f, activateBoostData(btg.network, address))

Berrachain_unstake ==
    /\ constructed
    /\ pc = "idle"
    /\ UNCHANGED <<binding, selected, berrachain, apiUrl>>
    /\ \E address \in Addresses, amount \in StringAmounts :
        LET f == Berrachain_Frame("unstake", address, amount, "DROP_BOOST_ERROR")
        IN  IF ~isAddress(address)
            THEN Throw(f, <<>>,
                       Berrachain_handleError(f.wrap,
                                              Berrachain_throwError("ADDRESS_FORMAT_ERROR")))
            ELSE IF btg.network = "testnet"
            THEN Berrachain_withAmount(f, "dropBoost")
            ELSE Berrachain_getTransaction(f, dropBoostData(btg.network, address))

\* the gate of queueUnstake and cancelUnstake: this.network !== 'mainnet'
notAvailableNetwork_Never(n) == FALSE
notAvailableNetwork(n) == n # "mainnet"

Berrachain_queueUnstake ==
    /\ constructed
    /\ pc = "idle"
    /\ UNCHANGED <<binding, selected, berrachain, apiUrl>>
    /\ \E address \in Addresses, amount \in StringAmounts :
        LET f == Berrachain_Frame("queueUnstake", address, amount,
                                  "QUEUE_DROP_BOOST_ERROR")
        IN  IF notAvailableNetwork(this_network)
            THEN Throw(f, <<>>,
                       Berrachain_handleError(f.wrap,
                                              Berrachain_throwError("NOT_AVAILABLE_NETWORK")))
            ELSE Berrachain_withAmount(f, "queueDropBoost")

Berrachain_cancelUnstake ==
    /\ constructed
    /\ pc = "idle"
    /\ UNCHANGED <<binding, selected, berrachain, apiUrl>>
    /\ \E address \in Addresses, amount \in StringAmounts :
        LET f == Berrachain_Frame("cancelUnstake", address, amount,
                                  "CANCEL_DROP_BOOST_ERROR")
        IN  IF notAvailableNetwork(this_network)
            THEN Throw(f, <<>>,
                       Berrachain_handleError(f.wrap,
                                              Berrachain_throwError("NOT_AVAILABLE_NETWORK")))
            ELSE Berrachain_withAmount(f, "cancelDropBoost")

Berrachain_estimateGas_Returns ==
    /\ pc = "Berrachain_estimateGas"
    /\ UNCHANGED <<binding, selected, berrachain, apiUrl>>
    /\ \E r \in {RpcFailure} \cup {RpcGas(g) : g \in GasValues} :
        IF r.ok
        THEN /\ pc' = "done"
             /\ frame' = [frame EXCEPT !.gasConsumption = r.gas]
             /\ result' = Returned([frame.tx EXCEPT
                              !.gasLimit = Berrachain_calculateGasLimit(r.gas)])
             /\ UNCHANGED rpcLog
        ELSE Throw(frame, rpcLog,
                   Berrachain_handleError(frame.wrap, RawError("TransportError")))

----------------------------------------------------------------------------

Init ==
    /\ \E network \in EthNetworkType, url \in Urls :
        /\ client = Binding(network, url).client
        /\ contractAccounting = Binding(network, url).contractAccounting
        /\ contractPool = Binding(network, url).contractPool
        /\ addressContractWithdrawTreasury =
               Binding(network, url).addressContractWithdrawTreasury
        /\ selected = [network |-> network, url |-> url, error |-> NoError]
    /\ pc = "idle"
    /\ frame = NoFrame
    /\ rpcLog = <<>>
    /\ result = NoResult
    /\ this_network = ""
    /\ validator = ""
    /\ btg = NoBGTContract
    /\ apiUrl = ""

Next ==
    \/ selectNetwork
    \/ stake
    \/ unstake
    \/ simulateUnstake
    \/ autocompoundBalanceOf_Returns
    \/ simulateContract_Returns
    \/ unstakePending
    \/ pendingBalanceOf_Returns
    \/ minStakeAmount_Returns
    \/ claimWithdrawRequest
    \/ withdrawRequest_Returns
    \/ autocompound
    \/ readyforAutocompoundRewardsAmount_Returns
    \/ activateStake
    \/ estimateGas_Returns
    \/ pendingBalanceOf
    \/ pendingDepositedBalanceOf
    \/ depositedBalanceOf
    \/ pendingRestakedRewardOf
    \/ restakedRewardOf
    \/ autocompoundBalanceOf
    \/ withdrawRequest
    \/ balanceRead_Returns
    \/ withdrawRequestRead_Returns
    \/ poolBalances
    \/ userBalances
    \/ multicall_Returns
    \/ settle

Spec == Init /\ [][Next]_vars

----------------------------------------------------------------------------
(* The Polygon adapter: one instance, bound by its constructor *)

NoContract == [abi |-> "", address |-> <<"", "">>]

Polygon_Init ==
    /\ \E url \in Urls :
        /\ client = [network |-> "polygon",
                     url |-> IF url = NoUrl THEN <<"polygon", "RPC_URL">>
                             ELSE <<"polygon", url>>]
        /\ selected = [network |-> "polygon", url |-> url, error |-> NoError]
    /\ contractAccounting = NoContract
    /\ contractPool = NoContract
    /\ addressContractWithdrawTreasury = <<"", "">>
    /\ pc = "idle"
    /\ frame = NoFrame
    /\ rpcLog = <<>>
    /\ result = NoResult
    /\ this_network = ""
    /\ validator = ""
    /\ btg = NoBGTContract
    /\ apiUrl = ""

Polygon_Next ==
    \/ isTransactionLoading
    \/ getTransactionReceipt_Returns
    \/ approve
    \/ delegate
    \/ undelegate
    \/ CheckToken_Returns
    \/ allowance_Returns
    \/ getTotalStake_Returns
    \/ SetStats_Returns
    \/ claimUndelegate
    \/ unbondNonces_Returns
    \/ unbonds_new_Returns
    \/ currentEpoch_Returns
    \/ reward
    \/ restake
    \/ Polygon_estimateGas_Returns
    \/ setApiUrl
    \/ settle

SpecPolygon == Polygon_Init /\ [][Polygon_Next]_vars

----------------------------------------------------------------------------
(* The Berrachain adapter: one instance, bound by its constructor *)

Berrachain_Init ==
    /\ \E n \in NetworkArgs, url \in Urls \ {NoUrl} :
        /\ client = [network |-> n, url |-> <<n, url>>]
        /\ this_network = n
        /\ IF n \in Network
           THEN /\ selected = [network |-> n, url |-> url, error |-> NoError]
                /\ validator = ValidatorOf(n)
                /\ btg = BGTContract(n)
           ELSE /\ selected = [network |-> n, url |-> url,
                               error |-> Berrachain_throwError("NETWORK_ERROR")]
                /\ validator = ""
                /\ btg = NoBGTContract
    /\ contractAccounting = NoContract
    /\ contractPool = NoContract
    /\ addressContractWithdrawTreasury = <<"", "">>
    /\ pc = "idle"
    /\ frame = NoFrame
    /\ rpcLog = <<>>
    /\ result = NoResult
    /\ apiUrl = ""

Berrachain_Next ==
    \/ Berrachain_approveForStake
    \/ Berrachain_stake
    \/ Berrachain_cancelStakeInQueue
    \/ Berrachain_activateStake
    \/ Berrachain_unstake
    \/ Berrachain_queueUnstake
    \/ Berrachain_cancelUnstake
    \/ Berrachain_estimateGas_Returns
    \/ settle

SpecBerrachain == Berrachain_Init /\ [][Berrachain_Next]_vars

----------------------------------------------------------------------------
(* The unit conversions and the status mapping, applied to drawn inputs *)

WeiInputs == {BN(c, e) : c \in 0..MaxCoeff, e \in 0..MaxWeiExp}
StatusCodes == 0..MaxStatusCode

Conversions_Init ==
    /\ client = [network |-> "", url |-> <<"", "">>]
    /\ selected = [network |-> "", url |-> NoUrl, error |-> NoError]
    /\ contractAccounting = NoContract
    /\ contractPool = NoContract
    /\ addressContractWithdrawTreasury = <<"", "">>
    /\ pc = "idle"
    /\ \E x \in WeiInputs, code \in StatusCodes :
          frame = [op |-> "", wei |-> x, code |-> code, ether |-> NaN,
                   form |-> "", text |-> Dec(0, 0)]
    /\ rpcLog = <<>>
    /\ result = NoResult
    /\ this_network = ""
    /\ validator = ""
    /\ btg = NoBGTContract
    /\ apiUrl = ""

\* fromWeiToEther(x)
Conversions_fromWeiToEther ==
    /\ pc = "idle"
    /\ pc' = "ether"
    /\ frame' = [frame EXCEPT !.op = "roundTrip", !.ether = fromWeiToEther(frame.wei)]
    /\ UNCHANGED <<binding, selected, berrachain, apiUrl, rpcLog, result>>

\* the decimal is written with toString()
Conversions_toString ==
    /\ pc = "ether"
    /\ pc' = "text"
    /\ frame' = [frame EXCEPT !.form = "toString", !.text = toString(frame.ether)]
    /\ UNCHANGED <<binding, selected, berrachain, apiUrl, rpcLog, result>>

\* the decimal is written with toFixed()
Conversions_toFixed ==
    /\ pc = "ether"
    /\ pc' = "text"
    /\ frame' = [frame EXCEPT !.form = "toFixed", !.text = toFixed(frame.ether)]
    /\ UNCHANGED <<binding, selected, berrachain, apiUrl, rpcLog, result>>

\* parseUnits(text, 18)
Conversions_parseUnits ==
    /\ pc = "text"
    /\ pc' = "done"
    /\ result' = IF parseUnitsThrows(frame.text)
                 THEN Failed(RawError("InvalidDecimalNumberError"))
                 ELSE ReturnedValue(parseUnits(frame.text, ETHER_DECIMALS))
    /\ UNCHANGED <<binding, selected, berrachain, apiUrl, rpcLog, frame>>

\* getStatusFromCode(code)
Conversions_getStatusFromCode ==
    /\ pc = "idle"
    /\ pc' = "done"
    /\ frame' = [frame EXCEPT !.op = "getStatusFromCode"]
    /\ result' = ReturnedValue(getStatusFromCode(frame.code))
    /\ UNCHANGED <<binding, selected, berrachain, apiUrl, rpcLog>>

Conversions_Next ==
    \/ Conversions_fromWeiToEther
    \/ Conversions_toString
    \/ Conversions_toFixed
    \/ Conversions_parseUnits
    \/ Conversions_getStatusFromCode

SpecConversions == Conversions_Init /\ [][Conversions_Next]_vars

----------------------------------------------------------------------------
(* Properties *)

callVars == <<pc, frame, rpcLog, result>>

\* the requests of the in-flight call made with the given client method
Requests(method) == {i \in 1..Len(rpcLog) : rpcLog[i].method = method}

\* the call ended in a transport failure of its gas estimate
GasEstimateFailed ==
    /\ result.status = "error"
    /\ result.error.code = frame.wrap
    /\ Requests("estimateGas") # {}

\* a finished call of op with a well-formed address
Finished(op) == pc = "done" /\ frame.op = op /\ isAddress(frame.address)

\* C1: unstake with a valid address and a decimal string amount A, once the
\* autocompound balance B has been read: for A > B the call fails with
\* MAX_AMOUNT_FOR_UNSTAKE_ERROR carrying B (not UNSTAKE_ERROR); for A <= B it
\* returns a transaction unless the gas estimate itself fails.
C1_UnstakeWithinBalance ==
    (Finished("unstake") /\ frame.amount.kind = "dec" /\ ~frame.balance.nan) =>
        IF BNgt(BigNumberOf(frame.amount), frame.balance)
        THEN /\ result.status = "error"
             /\ result.error.code = "MAX_AMOUNT_FOR_UNSTAKE_ERROR"
             /\ result.error.detail = frame.balance
        ELSE result.status = "tx" \/ GasEstimateFailed

C1_Witness ==
    /\ Finished("unstake")
    /\ result.error.code = "MAX_AMOUNT_FOR_UNSTAKE_ERROR"
    /\ BNgt(BigNumberOf(frame.amount), frame.balance)
    /\ ~BNisZero(frame.balance)

\* C2: stake with a valid address and a decimal string amount: an amount
\* below the minimum in wei ("0" included) fails with MIN_AMOUNT_ERROR and no
\* RPC request is made; an amount equal to the minimum passes the check and
\* the gas estimate is requested.
C2_StakeMinAmount ==
    (frame.op = "stake" /\ isAddress(frame.address) /\ frame.amount.kind = "dec") =>
        IF BNlt(parseUnits(frame.amount, ETHER_DECIMALS), ETH_MIN_AMOUNT)
        THEN /\ pc = "done"
             /\ result.error.code = "MIN_AMOUNT_ERROR"
             /\ rpcLog = <<>>
        ELSE /\ result.error.code # "MIN_AMOUNT_ERROR"
             /\ Requests("estimateGas") # {}

C2_Witness ==
    /\ Finished("stake")
    /\ result.error.code = "MIN_AMOUNT_ERROR"
    /\ frame.amount.c > 0
    /\ rpcLog = <<>>

\* C3: claimWithdrawRequest, once the withdraw request has been read: a zero
\* requested amount fails with ZERO_UNSTAKE_ERROR (also when readyForClaim is
\* zero), otherwise readyForClaim # requested fails with
\* NOT_FILLED_UNSTAKE_MESSAGE, in both cases without a gas estimate; a
\* transaction is returned only for requested # 0 and readyForClaim = requested.
C3_ClaimWithdrawRequest ==
    (Finished("claimWithdrawRequest") /\ ~frame.requested.nan) =>
        /\ BNisZero(frame.requested) =>
              /\ result.error.code = "ZERO_UNSTAKE_ERROR"
              /\ Requests("estimateGas") = {}
        /\ (~BNisZero(frame.requested) /\ ~BNeq(frame.readyForClaim, frame.requested)) =>
              /\ result.error.code = "NOT_FILLED_UNSTAKE_MESSAGE"
              /\ Requests("estimateGas") = {}
        /\ result.status = "tx" =>
              /\ ~BNisZero(frame.requested)
              /\ BNeq(frame.readyForClaim, frame.requested)

C3_Witness ==
    /\ Finished("claimWithdrawRequest")
    /\ result.error.code = "NOT_FILLED_UNSTAKE_MESSAGE"
    /\ BNlt(frame.readyForClaim, frame.requested)

\* C4: unstakePending with pending balance P > 0 and a decimal amount A <= P:
\* a zero remainder P - A succeeds without minStakeAmount being consulted; a
\* nonzero remainder below minStakeAmount fails with
\* INSUFFICIENT_PENDING_BALANCE_ERROR (not UNSTAKE_PENDING_ERROR); a remainder
\* of at least minStakeAmount succeeds.  "Succeeds" leaves the transport
\* failures of the RPC requests aside.
C4_UnstakePendingRemainder ==
    (/\ Finished("unstakePending") /\ frame.amount.kind = "dec"
     /\ ~frame.pendingBalance.nan /\ ~BNisZero(frame.pendingBalance)
     /\ ~BNgt(BigNumberOf(frame.amount), frame.pendingBalance)) =>
        IF BNisZero(BNminus(frame.pendingBalance, BigNumberOf(frame.amount)))
        THEN /\ result.status = "tx" \/ GasEstimateFailed
             /\ \A i \in Requests("readContract") : rpcLog[i].fn # "minStakeAmount"
        ELSE IF frame.minStake.nan
        THEN result.error.code = "MIN_STAKE_AMOUNT_ERROR"
        ELSE IF BNlt(BNminus(frame.pendingBalance, BigNumberOf(frame.amount)),
                     frame.minStake)
        THEN result.error.code = "INSUFFICIENT_PENDING_BALANCE_ERROR"
        ELSE result.status = "tx" \/ GasEstimateFailed

C4_Witness ==
    /\ Finished("unstakePending")
    /\ result.error.code = "INSUFFICIENT_PENDING_BALANCE_ERROR"
    /\ ~BNisZero(frame.remainder)
    /\ BNlt(frame.remainder, frame.minStake)

\* C5: unstakePending, once the pending balance P has been read: P = 0 fails
\* with ZERO_UNSTAKE_MESSAGE for any amount; an amount above P fails with
\* AMOUNT_GREATER_THAN_PENDING_BALANCE_ERROR carrying P; in both cases the
\* read of P is the only RPC request.  An amount equal to P is accepted.
C5_UnstakePendingBounds ==
    (Finished("unstakePending") /\ ~frame.pendingBalance.nan) =>
        IF BNisZero(frame.pendingBalance)
        THEN /\ result.error.code = "ZERO_UNSTAKE_MESSAGE"
             /\ Len(rpcLog) = 1 /\ rpcLog[1].fn = "pendingBalanceOf"
        ELSE IF BNgt(BigNumberOf(frame.amount), frame.pendingBalance)
        THEN /\ result.error.code = "AMOUNT_GREATER_THAN_PENDING_BALANCE_ERROR"
             /\ result.error.detail = frame.pendingBalance
             /\ Len(rpcLog) = 1 /\ rpcLog[1].fn = "pendingBalanceOf"
        ELSE result.error.code \notin
                 {"ZERO_UNSTAKE_MESSAGE", "AMOUNT_GREATER_THAN_PENDING_BALANCE_ERROR"}

C5_Witness ==
    /\ Finished("unstakePending")
    /\ result.error.code = "AMOUNT_GREATER_THAN_PENDING_BALANCE_ERROR"
    /\ ~BNisZero(frame.pendingBalance)
    /\ Len(rpcLog) = 1

\* C6: a selectNetwork call that fails with NETWORK_NOT_SUPPORTED changes
\* none of client, contractAccounting, contractPool and
\* addressContractWithdrawTreasury.
C6_FailedSelectKeepsBinding ==
    [][(selected'.error.code = "NETWORK_NOT_SUPPORTED" /\ UNCHANGED callVars)
          => UNCHANGED binding]_vars

C6_Witness ==
    /\ selected.error.code = "NETWORK_NOT_SUPPORTED"
    /\ selected.network \notin EthNetworkType
    /\ pc = "estimateGas"

\* C7: after a selectNetwork call with a supported identifier the client is
\* bound to that network (to the given url, or the network's own) and the
\* pool, accounting and treasury addresses are the ones configured for it,
\* whatever was bound before.
C7_SelectBindsConfigured ==
    selected.error.code = "" =>
        /\ client.network = selected.network
        /\ client.url = (IF selected.url = NoUrl
                         THEN ETH_NETWORK_ADDRESSES[selected.network].rpcUrl
                         ELSE <<selected.network, selected.url>>)
        /\ contractPool.address =
               ETH_NETWORK_ADDRESSES[selected.network].addressContractPool
        /\ contractAccounting.address =
               ETH_NETWORK_ADDRESSES[selected.network].addressContractAccounting
        /\ addressContractWithdrawTreasury =
               ETH_NETWORK_ADDRESSES[selected.network].addressContractWithdrawTreasury

\* a call started on mainnet is in flight and holesky has been selected since
C7_Witness ==
    /\ selected.error.code = ""
    /\ selected.network = "holesky"
    /\ rpcLog # <<>>
    /\ rpcLog[1].client.network = "mainnet"
    /\ contractPool.address = ETH_NETWORK_ADDRESSES["holesky"].addressContractPool

\* C8: every failure that leaves a public method carries a code of the
\* adapter's error table.
C8_ClosedErrorCodes ==
    result.status = "error" => result.error.code \in ERROR_MESSAGES

\* C9: a transaction returned by a state-changing operation was preceded by
\* exactly one estimateGas request, made for the transaction's to, data and
\* account, and its gasLimit is that estimate plus ETH_GAS_RESERVE, which is
\* above the (positive) estimate.
C9_GasLimitPolicy ==
    result.status = "tx" =>
        /\ Cardinality(Requests("estimateGas")) = 1
        /\ \A i \in Requests("estimateGas") :
              /\ i = Len(rpcLog)
              /\ rpcLog[i].to = result.tx.to
              /\ rpcLog[i].data = result.tx.data
              /\ rpcLog[i].account = result.tx.from
        /\ result.tx.gasLimit = frame.gasConsumption + ETH_GAS_RESERVE
        /\ result.tx.gasLimit > frame.gasConsumption
        /\ frame.gasConsumption > 0

C9_Witness ==
    /\ result.status = "tx"
    /\ frame.op = "unstakePending"
    /\ Len(rpcLog) = 3
    /\ result.tx.gasLimit = MaxGas + ETH_GAS_RESERVE

\* C10: the allowedInterchangeNum encoded by unstake and simulateUnstake is
\* 65535 for every argument above 65535 and the argument itself otherwise,
\* and an argument above 65535 does not stop the call: with a sufficient
\* balance the call data is encoded and the request made.
C10_InterchangeClamp ==
    /\ \A i \in 1..Len(rpcLog) :
          rpcLog[i].data.fn = "unstake" =>
              rpcLog[i].data.num =
                  (IF frame.numArg > 65535 THEN 65535 ELSE frame.numArg)
    /\ (/\ frame.op \in {"unstake", "simulateUnstake"}
        /\ pc \in {"estimateGas", "simulateContract", "done"}
        /\ isAddress(frame.address) /\ frame.amount.kind = "dec"
        /\ ~frame.balance.nan
        /\ ~BNgt(BigNumberOf(frame.amount), frame.balance)) =>
           \E i \in 1..Len(rpcLog) : rpcLog[i].data.fn = "unstake"

C10_Witness ==
    /\ result.status = "tx"
    /\ frame.op = "unstake"
    /\ frame.numArg > UINT16_MAX
    /\ result.tx.data.num = UINT16_MAX

\* C11: autocompound, once the ready-for-autocompound rewards have been read
\* from the accounting contract: zero rewards fail with NO_REWARDS_MESSAGE and
\* no gas estimate is requested; any nonzero rewards lead to the gas estimate
\* of an autocompound transaction addressed to the accounting contract.
C11_AutocompoundNoRewards ==
    (Finished("autocompound") /\ ~frame.rewards.nan) =>
        /\ rpcLog[1].fn = "readyforAutocompoundRewardsAmount"
        /\ rpcLog[1].to[2] = "accounting"
        /\ IF BNisZero(frame.rewards)
           THEN /\ result.status = "error"
                /\ result.error.code = "NO_REWARDS_MESSAGE"
                /\ Requests("estimateGas") = {}
           ELSE /\ result.error.code # "NO_REWARDS_MESSAGE"
                /\ \E i \in Requests("estimateGas") :
                      /\ rpcLog[i].fn = "autocompound"
                      /\ rpcLog[i].to[2] = "accounting"
                /\ result.status = "tx" =>
                      /\ result.tx.data.fn = "autocompound"
                      /\ result.tx.to[2] = "accounting"

C11_Witness ==
    /\ Finished("autocompound")
    /\ result.error.code = "NO_REWARDS_MESSAGE"
    /\ BNisZero(frame.rewards)
    /\ Len(rpcLog) = 1

----------------------------------------------------------------------------
(* Properties of the Polygon adapter (SpecPolygon) *)

MutatingOps == {"approve", "delegate", "undelegate", "claimUndelegate", "reward", "restake"}
TokenOps == {"delegate", "undelegate"}

\* the requests of the in-flight call other than the token validation
AfterTokenCheck == {i \in 1..Len(rpcLog) : rpcLog[i].method # "CheckToken"}

\* C12 (as stated): every mutating Polygon operation first calls CheckToken,
\* and with an invalid token fails with TOKEN_ERROR before any RPC read, gas
\* estimate or stats report.
C12_EveryMutatingChecksToken ==
    (pc = "done" /\ frame.op \in MutatingOps) =>
        /\ rpcLog # <<>>
        /\ rpcLog[1].method = "CheckToken"

\* C12 (amended): delegate and undelegate first call CheckToken, and with an
\* invalid token fail with TOKEN_ERROR, the token validation being the only
\* request made; approve, claimUndelegate, reward and restake take no token
\* and never call CheckToken.
C12_TokenGate ==
    /\ frame.op \in TokenOps =>
          /\ rpcLog # <<>>
          /\ rpcLog[1].method = "CheckToken"
          /\ rpcLog[1].to[3] = frame.token
          /\ AfterTokenCheck # {} => frame.tokenValid = "valid"
          /\ frame.tokenValid = "invalid" =>
                /\ pc = "done"
                /\ result.status = "error"
                /\ result.error.code = "TOKEN_ERROR"
                /\ AfterTokenCheck = {}
    /\ frame.op \in MutatingOps \ TokenOps =>
          \A i \in 1..Len(rpcLog) : rpcLog[i].method # "CheckToken"

C12_Witness ==
    /\ pc = "done"
    /\ frame.op = "delegate"
    /\ ~isValidToken(frame.token)
    /\ result.error.code = "TOKEN_ERROR"
    /\ Len(rpcLog) = 1

\* C13: delegate with a valid token and an amount at or above the minimum,
\* once the allowance has been read: an allowance below the amount in base
\* units (an allowance of zero included) fails with ALLOWANCE_ERR, and a
\* transaction is returned only when allowance >= amount.
C13_DelegateAllowance ==
    (pc = "done" /\ frame.op = "delegate" /\ ~frame.allowedAmount.nan) =>
        /\ BNlt(frame.allowedAmount, frame.amountWei) =>
              /\ result.status = "error"
              /\ result.error.code = "ALLOWANCE_ERR"
        /\ result.status = "tx" => ~BNlt(frame.allowedAmount, frame.amountWei)

\* C14: undelegate with a valid token and a decimal amount, once the total
\* delegated balance has been read: a balance below the amount (a balance of
\* zero included) fails with DELEGATED_BALANCE_ERR and nothing is reported; a
\* transaction is returned only when balance >= amount, and then it is
\* returned unless the stats report fails.
C14_UndelegateBalance ==
    (pc = "done" /\ frame.op = "undelegate" /\ ~frame.delegatedBalance.nan) =>
        /\ frame.tokenValid = "valid"
        /\ IF BNlt(frame.delegatedBalance, BigNumberOf(frame.amount))
           THEN /\ result.status = "error"
                /\ result.error.code = "DELEGATED_BALANCE_ERR"
                /\ Requests("SetStats") = {}
           ELSE /\ result.error.code # "DELEGATED_BALANCE_ERR"
                /\ result.status = "tx" \/ frame.stats = "failed"

C14_Witness ==
    /\ pc = "done"
    /\ frame.op = "undelegate"
    /\ result.error.code = "DELEGATED_BALANCE_ERR"
    /\ BNisZero(frame.delegatedBalance)
    /\ ~BNisZero(BigNumberOf(frame.amount))

\* the nonce claimUndelegate resolves: the account's most recent one when the
\* argument is 0, else the argument
ResolvedNonce == IF frame.unbondNonce = 0 THEN frame.unbondNoncesRes ELSE frame.unbondNonce

\* C15: claimUndelegate, once the unbond record has been read: a zero amount
\* fails with "Nothing to claim"; otherwise, once the current epoch has been
\* read, currentEpoch < withdrawEpoch + WITHDRAW_EPOCH_DELAY fails with the
\* epoch-delay error; otherwise (boundary included) a transaction is returned
\* that encodes unstakeClaimTokens_newPOL when isPOL and unstakeClaimTokens_new
\* when not, with the resolved nonce as its argument.
C15_ClaimUndelegate ==
    (pc = "done" /\ frame.op = "claimUndelegate" /\ ~frame.unbond.amount.nan) =>
        /\ rpcLog[2].fn = "unbonds_new"
        /\ rpcLog[2].data.args = <<frame.address, ResolvedNonce>>
        /\ IF BNisZero(frame.unbond.amount)
           THEN /\ result.status = "error"
                /\ result.error.code = "Nothing to claim"
                /\ Len(rpcLog) = 2
           ELSE IF frame.currentEpoch < 0
           THEN result.error.code = "TransportError"
           ELSE IF frame.currentEpoch < frame.unbond.withdrawEpoch + WITHDRAW_EPOCH_DELAY
           THEN /\ result.status = "error"
                /\ result.error.code = "Current epoch less than withdraw delay"
           ELSE /\ result.status = "tx"
                /\ result.tx.data.fn = (IF frame.isPOL THEN "unstakeClaimTokens_newPOL"
                                        ELSE "unstakeClaimTokens_new")
                /\ result.tx.data.args = <<ResolvedNonce>>
                /\ result.tx.to = ADDRESS_CONTRACT_BUY

\* the boundary: the current epoch is exactly withdrawEpoch + WITHDRAW_EPOCH_DELAY
C15_Witness ==
    /\ pc = "done"
    /\ frame.op = "claimUndelegate"
    /\ result.status = "tx"
    /\ frame.isPOL
    /\ frame.unbondNonce = 0
    /\ frame.currentEpoch = frame.unbond.withdrawEpoch + WITHDRAW_EPOCH_DELAY
    /\ result.tx.data.args = <<frame.unbondNoncesRes>>

\* C16: delegate and undelegate send the stats report only once the
\* transaction has been built, as their last request, and wait for it: a
\* failed report fails the call with no transaction returned, and a
\* transaction is returned only after the report has succeeded.
C16_StatsAwaited ==
    frame.op \in TokenOps =>
        /\ \A i \in Requests("SetStats") :
              /\ i = Len(rpcLog)
              /\ frame.tx # Polygon_NoTx
              /\ frame.tx.data.args[1] = frame.amountWei
              /\ rpcLog[i].to[3] = frame.token
              /\ rpcLog[i].account = frame.address
        /\ pc = "SetStats" => result.status = "none"
        /\ (pc = "done" /\ frame.stats = "failed") =>
              /\ result.status = "error"
              /\ result.error.code = frame.wrap
        /\ result.status = "tx" =>
              /\ frame.stats = "ok"
              /\ Requests("SetStats") # {}
              /\ result.tx = frame.tx

C16_Witness ==
    /\ pc = "done"
    /\ frame.op = "delegate"
    /\ frame.stats = "failed"
    /\ result.error.code = "DELEGATE_ERR"
    /\ frame.tx.gasLimit = "DELEGATE_BASE_GAS"

\* C17: a delegate or undelegate call that fails for an invalid token, an
\* amount below the minimum, an insufficient allowance, an insufficient
\* delegated balance or a failed RPC read has sent no stats report; and once
\* the report has been sent and has succeeded the call does not fail.
C17_NoFailureAfterReport ==
    frame.op \in TokenOps =>
        /\ (/\ result.status = "error"
            /\ result.error.code \in
                  {"TOKEN_ERROR", "Min Amount", "ALLOWANCE_ERR", "DELEGATED_BALANCE_ERR",
                   "GET_ALLOWANCE_ERR", "GET_TOTAL_DELEGATE_ERR"}) =>
               Requests("SetStats") = {}
        /\ (result.status = "error" /\ Requests("SetStats") # {}) =>
               frame.stats = "failed"
        /\ (pc = "done" /\ frame.stats = "ok") => result.status = "tx"

C17_Witness ==
    /\ pc = "done"
    /\ frame.op = "undelegate"
    /\ result.error.code = "DELEGATED_BALANCE_ERR"
    /\ frame.tokenValid = "valid"
    /\ Requests("SetStats") = {}

\* C18: isTransactionLoading returns {result: true} when the client fails
\* with receipt-not-found, {result: false} when a receipt is returned, and
\* fails with TRANSACTION_LOADING_ERR for any other failure of the client.
C18_TransactionLoading ==
    (pc = "done" /\ frame.op = "isTransactionLoading") =>
        /\ Len(rpcLog) = 1 /\ rpcLog[1].method = "getTransactionReceipt"
        /\ frame.receipt = "TransactionReceiptNotFoundError" =>
              result.status = "value" /\ result.value = TRUE
        /\ frame.receipt = "receipt" =>
              result.status = "value" /\ result.value = FALSE
        /\ frame.receipt \notin {"receipt", "TransactionReceiptNotFoundError"} =>
              result.status = "error" /\ result.error.code = "TRANSACTION_LOADING_ERR"

C18_Witness ==
    /\ pc = "done"
    /\ frame.op = "isTransactionLoading"
    /\ frame.receipt = "TransportError"
    /\ result.error.code = "TRANSACTION_LOADING_ERR"

\* C19: approve with a decimal amount: a base-unit value below MIN_AMOUNT ("0"
\* included) fails with the minimum-amount error and estimateGas is never
\* called; an accepted amount leads to the gas estimate of an approve call on
\* the POL token contract when isPOL and on the legacy token contract when
\* not, with the staking contract as spender and the amount in base units.
C19_ApproveMinAmount ==
    (frame.op = "approve" /\ frame.amount.kind = "dec") =>
        IF BNlt(parseUnits(frame.amount, ETHER_DECIMALS), MIN_AMOUNT)
        THEN /\ pc = "done"
             /\ result.status = "error"
             /\ result.error.code = "Min Amount"
             /\ rpcLog = <<>>
        ELSE /\ Len(rpcLog) = 1
             /\ rpcLog[1].method = "estimateGas"
             /\ rpcLog[1].to = (IF frame.isPOL THEN ADDRESS_CONTRACT_APPROVE_POL
                                ELSE ADDRESS_CONTRACT_APPROVE)
             /\ rpcLog[1].data =
                    Polygon_encodeFunctionData("approve",
                        <<ADDRESS_CONTRACT_STAKING, parseUnits(frame.amount, ETHER_DECIMALS)>>)
             /\ result.status = "tx" =>
                    /\ result.tx.to = rpcLog[1].to
                    /\ result.tx.data = rpcLog[1].data
                    /\ result.tx.from = frame.address

C19_Witness ==
    /\ pc = "done"
    /\ frame.op = "approve"
    /\ frame.isPOL
    /\ BNeq(frame.amountWei, MIN_AMOUNT)
    /\ result.status = "tx"
    /\ result.tx.to = ADDRESS_CONTRACT_APPROVE_POL

----------------------------------------------------------------------------
(* Properties of the Berrachain adapter (SpecBerrachain) *)

\* C20: Berrachain stake and approveForStake called with "0" (a base-unit
\* value below any minimum) fail with the minimum-amount error and make no
\* RPC request.
C20_BerrachainMinAmount ==
    (/\ frame.op \in {"stake", "approveForStake"}
     /\ isAddress(frame.address)
     /\ frame.amount.kind = "dec"
     /\ frame.amount.c = 0) =>
        /\ pc = "done"
        /\ result.status = "error"
        /\ result.error.code = "MIN_AMOUNT_ERROR"
        /\ rpcLog = <<>>

\* C21: queueUnstake and cancelUnstake are available on mainnet only. On an
\* instance constructed for testnet each of them ends with
\* NOT_AVAILABLE_NETWORK, not with its own wrapping code, before call data is
\* encoded or gas is estimated; on mainnet the network gate never fails.
C21_MainnetOnly ==
    frame.op \in {"queueUnstake", "cancelUnstake"} =>
        /\ this_network = "testnet" =>
              /\ pc = "done"
              /\ result.status = "error"
              /\ result.error.code = "NOT_AVAILABLE_NETWORK"
              /\ rpcLog = <<>>
              /\ frame.tx.data = Polygon_NoData
        /\ this_network = "mainnet" =>
              (result.status = "error" =>
                  result.error.code # "NOT_AVAILABLE_NETWORK")

C21_Witness ==
    /\ frame.op = "cancelUnstake"
    /\ this_network = "testnet"
    /\ isAddress(frame.address)
    /\ frame.amount.kind = "dec"
    /\ pc = "done"
    /\ result.error.code = "NOT_AVAILABLE_NETWORK"

\* C22: the network switch is closed and fixed at construction. Constructing
\* with a network other than mainnet or testnet fails with NETWORK_ERROR and
\* leaves no instance to call; the network, the validator and the contract
\* binding of a constructed instance never change; activateStake and unstake
\* encode (address, validator) on mainnet, and on testnet (validator) for
\* activateBoost and (validator, amount) for dropBoost, so the call data is
\* assigned whenever getTransaction estimates gas.
C22_ClosedSwitch ==
    /\ selected.network \notin Network =>
          /\ selected.error.code = "NETWORK_ERROR"
          /\ pc = "idle"
          /\ frame = NoFrame
    /\ selected.network \in Network =>
          /\ constructed
          /\ this_network = selected.network
          /\ btg.network = this_network
    /\ \A i \in Requests("estimateGas") : rpcLog[i].data # Polygon_NoData
    /\ (frame.op = "activateStake" /\ rpcLog # <<>>) =>
          /\ rpcLog[1].data.fn = "activateBoost"
          /\ this_network = "mainnet" =>
                rpcLog[1].data.args = <<frame.address, validator>>
          /\ this_network = "testnet" => rpcLog[1].data.args = <<validator>>
    /\ (frame.op = "unstake" /\ rpcLog # <<>>) =>
          /\ rpcLog[1].data.fn = "dropBoost"
          /\ this_network = "mainnet" =>
                rpcLog[1].data.args = <<frame.address, validator>>
          /\ this_network = "testnet" =>
                rpcLog[1].data.args =
                    <<validator, parseUnits(frame.amount, ETHER_DECIMALS)>>

C22_Fixed == [][UNCHANGED <<berrachain, client>>]_vars

C22_NetworkSwitch == []C22_ClosedSwitch /\ C22_Fixed

C22_Witness ==
    /\ frame.op = "unstake"
    /\ this_network = "testnet"
    /\ pc = "done"
    /\ result.status = "tx"
    /\ result.tx.data.args = <<validator, BN(5, 17)>>

\* C23: selectNetwork is not serialised against in-flight calls. Every
\* request a call issues goes to the client and to a contract address bound
\* at the moment it is issued, so a call suspended at an RPC await while
\* selectNetwork rebinds continues on the new network: a returned transaction
\* can rest on a precondition read made on one network while its `to` address
\* and gas estimate come from another.
C23_IssuedOnCurrentBinding ==
    [][Len(rpcLog') > Len(rpcLog) =>
          LET r == rpcLog'[Len(rpcLog')]
          IN  /\ r.client = client
              /\ r.to \in {contractAccounting.address, contractPool.address,
                           addressContractWithdrawTreasury}
              /\ pc' = "estimateGas" => frame'.tx.to = r.to]_vars

C23_Witness ==
    /\ frame.op = "unstake"
    /\ pc = "done"
    /\ result.status = "tx"
    /\ Len(rpcLog) = 2
    /\ rpcLog[1].method = "readContract"
    /\ rpcLog[1].client.network = "mainnet"
    /\ rpcLog[1].to = ETH_NETWORK_ADDRESSES["mainnet"].addressContractAccounting
    /\ rpcLog[2].method = "estimateGas"
    /\ rpcLog[2].client.network = "holesky"
    /\ result.tx.to = ETH_NETWORK_ADDRESSES["holesky"].addressContractPool

\* the off-chain API requests of the in-flight call
ApiRequests == {i \in 1..Len(rpcLog) : rpcLog[i].client.network = "api"}

\* C24 (as claimed): concurrent calls, setApiUrl included, do not affect one
\* another; in particular the checkToken and setStats requests of one Polygon
\* delegate / undelegate call are issued against the same base URL.
C24_SameBaseUrl ==
    \A i, j \in ApiRequests : rpcLog[i].client.url = rpcLog[j].client.url

\* C24 (amended): the base URL of the off-chain client is shared mutable
\* state too. Every API request is issued against the apiUrl current at the
\* step that issues it, requests already issued are not altered, and only
\* setApiUrl changes apiUrl, touching nothing else.
C24_IssuedOnCurrentApiUrl ==
    [][/\ Len(rpcLog') > Len(rpcLog) =>
             /\ SubSeq(rpcLog', 1, Len(rpcLog)) = rpcLog
             /\ LET r == rpcLog'[Len(rpcLog')]
                IN  r.client.network = "api" => r.client.url = <<"api", apiUrl>>
       /\ apiUrl' # apiUrl =>
             UNCHANGED <<binding, selected, berrachain, callVars>>]_vars

C24_Witness ==
    /\ frame.op = "delegate"
    /\ pc = "done"
    /\ result.status = "tx"
    /\ Len(rpcLog) >= 2
    /\ rpcLog[1].method = "CheckToken"
    /\ rpcLog[1].client.url = <<"api", "https://api-a">>
    /\ rpcLog[Len(rpcLog)].method = "SetStats"
    /\ rpcLog[Len(rpcLog)].client.url = <<"api", "https://api-b">>
    /\ apiUrl = "https://api-b"

\* unstake and simulateUnstake calls that have read the autocompound balance
BalanceRead ==
    /\ frame.op \in {"unstake", "simulateUnstake"}
    /\ frame.balance # NaN

C27_RoundTrip ==
    (frame.op = "roundTrip" /\ pc = "done") =>
        /\ result.status = "value"
        /\ BNeq(result.value, frame.wei)

\* C28: getStatusFromCode maps 0 to 'unknown', 1 to 'pending' and any other
\* value to 'deposited'.
C28_StatusFromCode ==
    (frame.op = "getStatusFromCode" /\ pc = "done") =>
        result.value = IF frame.code = 0 THEN "unknown"
                       ELSE IF frame.code = 1 THEN "pending"
                       ELSE "deposited"

\* C29: the allowance delegate compares against the amount is read from the
\* token selected by isPOL: the POL token contract when isPOL is true, the
\* legacy token contract when it is false.
C29_AllowanceOfSelectedToken ==
    frame.op = "delegate" =>
        \A i \in Requests("readContract") :
            rpcLog[i].fn = "allowance" =>
                rpcLog[i].to = IF frame.isPOL THEN ADDRESS_CONTRACT_APPROVE_POL
                               ELSE ADDRESS_CONTRACT_APPROVE

\* C25: poolBalances and userBalances each issue one multicall with
\* allowFailure false over their five accounting-contract methods and are
\* all-or-nothing: on success the result has exactly one entry per method
\* name, the decimal-string ether value of the sub-call at the same index; if
\* any sub-call fails the whole call fails with POOL_BALANCES_ERROR /
\* USER_BALANCES_ERROR and no mapping is returned.
C25_AllOrNothing ==
    frame.op \in {"poolBalances", "userBalances"} =>
        LET methods == IF frame.op = "poolBalances" THEN poolMethods ELSE userMethods
            contracts == rpcLog[1].data.contracts
        IN  /\ Len(rpcLog) = 1
            /\ rpcLog[1].method = "multicall"
            /\ rpcLog[1].data.allowFailure = FALSE
            /\ Len(contracts) = 5
            /\ \A i \in 1..5 :
                  /\ contracts[i].functionName = methods[i]
                  /\ contracts[i].address[2] = "accounting"
                  /\ contracts[i].args = IF frame.op = "userBalances"
                                         THEN <<frame.address>> ELSE <<>>
            /\ pc = "done" =>
                  IF Len(frame.results) = 5 /\ \A i \in 1..5 : frame.results[i].ok
                  THEN /\ result.status = "value"
                       /\ DOMAIN result.value = {methods[i] : i \in 1..5}
                       /\ \A i \in 1..5 :
                             result.value[methods[i]] =
                                 Dec(frame.results[i].v.c,
                                     frame.results[i].v.e - ETHER_DECIMALS)
                  ELSE /\ result.status = "error"
                       /\ result.error.code = IF frame.op = "poolBalances"
                                              THEN "POOL_BALANCES_ERROR"
                                              ELSE "USER_BALANCES_ERROR"
                       /\ result.value = NaN

C25_Witness ==
    /\ frame.op = "userBalances"
    /\ pc = "done"
    /\ result.status = "value"
    /\ result.value["pendingBalanceOf"] = Dec(5, -1)
    /\ result.value["pendingDepositedBalanceOf"] = Dec(10, -1)
    /\ result.value["pendingRestakedRewardOf"] = Dec(0, -1)
    /\ result.value["depositedBalanceOf"] = Dec(10, -1)

\* the public Ethereum methods that take a user address
AddressOps ==
    {"pendingBalanceOf", "pendingDepositedBalanceOf", "depositedBalanceOf",
     "pendingRestakedRewardOf", "restakedRewardOf", "autocompoundBalanceOf",
     "withdrawRequest", "userBalances", "stake", "unstake", "simulateUnstake",
     "unstakePending", "claimWithdrawRequest", "autocompound", "activateStake"}

\* C30: every public Ethereum method that takes a user address rejects a
\* malformed address with ADDRESS_FORMAT_ERROR before it issues any RPC call;
\* in stake the address check precedes the amount checks.
C30_AddressChecked ==
    (frame.op \in AddressOps /\ ~isAddress(frame.address)) =>
        /\ pc = "done"
        /\ result.status = "error"
        /\ result.error.code = "ADDRESS_FORMAT_ERROR"
        /\ rpcLog = <<>>

====
